---- MODULE Spec2Model ----
(***************************************************************************)
(* Queue driver (MainWindow), process supervisor (DownloadWorker) and      *)
(* command builder of ytget, as a state machine.                           *)
(*                                                                         *)
(* Threads: the interface thread runs the MainWindow handlers, one handler *)
(* at a time; every DownloadWorker runs in a QThread of its own, first     *)
(* run() and then the thread's event loop, which delivers the QProcess     *)
(* signals to the worker's slots.  Signals from a worker to the window     *)
(* cross threads: they are posted to the interface thread's event queue    *)
(* (inbox) and handled later, in posting order.                            *)
(*                                                                         *)
(* _download_next makes the previous download thread quit and waits for it *)
(* before it replaces download_worker, and a worker that is replaced is    *)
(* released together with its QProcess, which kills a process that still   *)
(* runs.  So one worker object is live at a time: the model keeps the state*)
(* of that one, and the signals of replaced workers that are still queued  *)
(* in the inbox are marked stale.                                          *)
(***************************************************************************)
EXTENDS Integers, Sequences, FiniteSets, TLC

\* Bounds of the model.
MaxQueue == 2
MaxInbox == 2
\* rows of the longest queue file that is loaded
MaxRows == 3
\* cancel() calls of one worker that find its process running
MaxCancels == 2

\* log lines a worker's buffer holds before it is flushed
MaxLog == 2
\* thumbnail requests handed to the ThumbManager
MaxThumbs == 3

\* the clock of the packaged worker advances by TickMs, up to MaxTimeMs
TickMs == 1000

MaxTimeMs == 6000

\* lines numbered since the log buffer was last empty
MaxLogLines == 1510

VARIABLES
    queue,                  \* MainWindow.queue
    current_download_item,  \* <<>> for None, <<item>> otherwise
    is_downloading,
    queue_paused,
    download_worker,        \* "None", or "worker": the DownloadWorker last made
    settings,               \* the shared AppSettings object
    post_queue_action,
    queue_list,             \* the QListWidget rows: title, url and active mark
    btn_start_enabled,      \* btn_start_queue.isEnabled()
    btn_pause_enabled,      \* btn_pause_queue.isEnabled()
    cover_thread,           \* is a CoverCropWorker running
    inbox,                  \* queued signals posted to the interface thread
    disk,                   \* the queue file last written by Save Queue
    cookie_file,            \* does COOKIES_PATH exist with a size > 0
    run_pc,                 \* where the thread of download_worker is
    run_item,               \* DownloadWorker.item
    cancel_requested,       \* DownloadWorker._cancel_requested
    process,                \* the state of the worker's QProcess / OS process
    cmd,                    \* the argument list run() built
    emitted,                \* signals the worker emitted, in order
    terminal_processed,     \* has the window handled a finished signal of
                            \* download_worker
    title_fetcher,          \* <<>>, or <<the TitleFetcher made last>>: its URL,
                            \* whether run() is still to return, and the
                            \* signals it has emitted
    log_buffer,             \* _log_buffer of the packaged worker
                            \* (ytget_gui/workers): the texts not flushed yet
    gui_worker,             \* the packaged worker's clock and status throttle,
                            \* and the signals it emitted in the last step
    thumb_manager,          \* ThumbManager: its queue, its worker thread and
                            \* the signals it has emitted
    launch_settings,        \* history: <<the settings as they were when
                            \* download_worker was made>>, until run() has
                            \* read the settings object
    attempt,                \* history: the command last built, whether that run
                            \* failed, whether Start Queue relaunched it, and the
                            \* failed attempt it retries; forgotten when the
                            \* configuration or the queue changes
    last                    \* the handler that made the last step

vars == <<queue, current_download_item, is_downloading, queue_paused,
          download_worker, settings, post_queue_action, queue_list,
          btn_start_enabled, btn_pause_enabled, cover_thread, inbox, disk,
          cookie_file, run_pc, run_item, cancel_requested, process,
          cmd, emitted, terminal_processed, title_fetcher, log_buffer,
          gui_worker, thumb_manager, launch_settings, attempt, last>>

(***************************************************************************)
(* Strings.                                                                *)
(***************************************************************************)
Contains(s, sub) ==
    \E i \in 1..(Len(s) - Len(sub) + 1) : SubSeq(s, i, i + Len(sub) - 1) = sub

Digit(d) == SubSeq("0123456789", d + 1, d + 1)

RECURSIVE IntToStr(_)
IntToStr(n) == IF n < 10 THEN Digit(n) ELSE IntToStr(n \div 10) \o Digit(n % 10)

RECURSIVE Join(_, _)
Join(sep, xs) ==
    IF xs = <<>> THEN ""
    ELSE IF Len(xs) = 1 THEN xs[1]
    ELSE xs[1] \o sep \o Join(sep, Tail(xs))

\* s.replace('"', '\\"')
RECURSIVE EscapeQuotes(_)
EscapeQuotes(s) ==
    IF s = "" THEN ""
    ELSE (IF SubSeq(s, 1, 1) = "\"" THEN "\\\"" ELSE SubSeq(s, 1, 1))
         \o EscapeQuotes(SubSeq(s, 2, Len(s)))

\* s.strip(), for strings whose only white space is the blank
RECURSIVE Strip(_)
Strip(s) ==
    IF s = "" THEN ""
    ELSE IF SubSeq(s, 1, 1) = " " THEN Strip(SubSeq(s, 2, Len(s)))
    ELSE IF SubSeq(s, Len(s), Len(s)) = " " THEN Strip(SubSeq(s, 1, Len(s) - 1))
    ELSE s

(***************************************************************************)
(* Queue items and settings the handlers are driven with.                  *)
(***************************************************************************)
ItemVideo == [url |-> "https://youtu.be/a", title |-> "A", format_code |-> "best"]
ItemMusic == [url |-> "https://youtube.com/watch?v=b&list=PL1", title |-> "B",
              format_code |-> "bestaudio"]

ItemChoices == {ItemVideo, ItemMusic}

\* the URLs the user enters
UrlChoices == {it.url : it \in ItemChoices}

BaseSettings ==
    [YT_DLP_PATH |-> "/app/yt-dlp", FFMPEG_DIR |-> "/app",
     COOKIES_PATH |-> "/app/cookies.txt", COOKIES_FROM_BROWSER |-> "",
     PROXY_URL |-> "", LIMIT_RATE |-> "", RETRIES |-> 10, DATEAFTER |-> "",
     LIVE_FROM_START |-> FALSE, ENABLE_ARCHIVE |-> FALSE,
     ARCHIVE_PATH |-> "/app/archive.txt", PLAYLIST_REVERSE |-> FALSE,
     PLAYLIST_ITEMS |-> "", CLIP_START |-> "", CLIP_END |-> "",
     YT_MUSIC_METADATA |-> FALSE, DOWNLOADS_DIR |-> "/dl",
     ADD_METADATA |-> FALSE, AUDIO_NORMALIZE |-> FALSE,
     SPONSORBLOCK_CATEGORIES |-> <<>>, CHAPTERS_MODE |-> "none",
     WRITE_SUBS |-> FALSE, SUB_LANGS |-> "", WRITE_AUTO_SUBS |-> FALSE,
     CONVERT_SUBS_TO_SRT |-> FALSE, CUSTOM_FFMPEG_ARGS |-> "",
     CROP_AUDIO_COVERS |-> FALSE, ORGANIZE_BY_UPLOADER |-> FALSE,
     VIDEO_FORMAT |-> "", WRITE_THUMBNAIL |-> FALSE,
     CONVERT_THUMBNAILS |-> FALSE, THUMBNAIL_FORMAT |-> "png",
     EMBED_THUMBNAIL |-> FALSE]

AltSettings ==
    [BaseSettings EXCEPT !.PROXY_URL = "http://proxy:8080",
                         !.SPONSORBLOCK_CATEGORIES = <<"sponsor", "intro">>,
                         !.CHAPTERS_MODE = "embed", !.WRITE_SUBS = TRUE,
                         !.SUB_LANGS = "en,es", !.ADD_METADATA = TRUE,
                         !.CUSTOM_FFMPEG_ARGS = "-ar 44100"]

SettingsChoices == {BaseSettings, AltSettings}

\* cover cropping switched on
CropSettings == [BaseSettings EXCEPT !.CROP_AUDIO_COVERS = TRUE]

(***************************************************************************)
(* DownloadWorker._build_command (ytget/workers/download_worker.py)        *)
(***************************************************************************)
is_short_video(url) == Contains(url, "youtube.com/shorts/")

IsAudioDownload(it) == it.format_code \in {"bestaudio", "playlist_mp3", "youtube_music"}

IsPlaylist(it) ==
    Contains(it.url, "list=") \/ it.format_code \in {"playlist_mp3", "youtube_music"}

Opt(cond, args) == IF cond THEN args ELSE <<>>

FallbackTemplate(s) ==
    IF s.YT_MUSIC_METADATA THEN "%(artist)s - %(title)s.%(ext)s" ELSE "%(title)s.%(ext)s"

\* a builder that would put every download into the downloads folder itself
OutputArgsFlat(it, s) ==
    Opt(IsPlaylist(it), <<"--yes-playlist">>)
    \o <<"-o", s.DOWNLOADS_DIR \o "/" \o FallbackTemplate(s)>>

OutputArgs(it, s) ==
    IF IsPlaylist(it)
    THEN <<"--yes-playlist", "-o",
           s.DOWNLOADS_DIR \o "/" \o "%(playlist_title)s" \o "/" \o FallbackTemplate(s)>>
    ELSE <<"-o", s.DOWNLOADS_DIR \o "/" \o FallbackTemplate(s)>>

FormatArgs(it, s) ==
    IF IsAudioDownload(it)
    THEN <<"-f", "bestaudio", "--extract-audio", "--audio-format", "mp3",
           "--audio-quality", "0", "--embed-thumbnail">>
         \o Opt(s.ADD_METADATA, <<"--add-metadata">>)
         \o Opt(it.format_code = "youtube_music" /\ s.YT_MUSIC_METADATA,
                <<"--parse-metadata", "description:(?s)(?P<meta_comment>.+)",
                  "--parse-metadata", "%(meta_comment)s:(?P<artist>[^\\n]+)",
                  "--parse-metadata", "%(meta_comment)s:.+ - (?P<title>[^\\n]+)">>)
         \o Opt(s.AUDIO_NORMALIZE, <<"--audio-normalize">>)
    ELSE <<"-f", it.format_code, "--merge-output-format", "mkv">>
         \o Opt(s.ADD_METADATA, <<"--add-metadata">>)

\* a builder that would not look at the URL
SponsorBlockArgsAnyUrl(it, s) ==
    Opt(s.SPONSORBLOCK_CATEGORIES # <<>>,
        <<"--sponsorblock-remove", Join(",", s.SPONSORBLOCK_CATEGORIES),
          "--sleep-requests", "1", "--sleep-subtitles", "1">>)

SponsorBlockArgs(it, s) ==
    Opt(s.SPONSORBLOCK_CATEGORIES # <<>> /\ ~is_short_video(it.url),
        <<"--sponsorblock-remove", Join(",", s.SPONSORBLOCK_CATEGORIES),
          "--sleep-requests", "1", "--sleep-subtitles", "1">>)

\* a builder that would embed the chapters and split them as well
ChaptersArgsEmbedAlways(s) ==
    Opt(s.CHAPTERS_MODE = "split", <<"--split-chapters">>)
    \o Opt(s.CHAPTERS_MODE # "none", <<"--embed-chapters">>)

ChaptersArgs(s) ==
    IF s.CHAPTERS_MODE = "split" THEN <<"--split-chapters">>
    ELSE IF s.CHAPTERS_MODE = "embed" THEN <<"--embed-chapters">>
    ELSE <<>>

\* a builder that would pass the languages whether or not subtitles are on
SubtitleArgsLangsAlways(s) ==
    Opt(s.WRITE_SUBS, <<"--write-subs">>)
    \o Opt(s.SUB_LANGS # "", <<"--sub-langs", s.SUB_LANGS>>)
    \o Opt(s.WRITE_SUBS /\ s.WRITE_AUTO_SUBS, <<"--write-auto-subs">>)
    \o Opt(s.WRITE_SUBS /\ s.CONVERT_SUBS_TO_SRT, <<"--convert-subs", "srt">>)

SubtitleArgs(s) ==
    Opt(s.WRITE_SUBS,
        <<"--write-subs">>
        \o Opt(s.SUB_LANGS # "", <<"--sub-langs", s.SUB_LANGS>>)
        \o Opt(s.WRITE_AUTO_SUBS, <<"--write-auto-subs">>)
        \o Opt(s.CONVERT_SUBS_TO_SRT, <<"--convert-subs", "srt">>))

\* cookies: whether COOKIES_PATH exists with a size > 0 when the command is built
BuildCommand(it, s, cookies) ==
    <<s.YT_DLP_PATH, "--no-warnings", "--progress",
      "--output-na-placeholder", "Unknown", "--ffmpeg-location", s.FFMPEG_DIR>>
    \o Opt(cookies, <<"--cookies", s.COOKIES_PATH>>)
    \o Opt(s.COOKIES_FROM_BROWSER # "", <<"--cookies-from-browser", s.COOKIES_FROM_BROWSER>>)
    \o Opt(s.PROXY_URL # "", <<"--proxy", s.PROXY_URL>>)
    \o Opt(s.LIMIT_RATE # "", <<"--limit-rate", s.LIMIT_RATE>>)
    \o <<"--retries", IntToStr(s.RETRIES)>>
    \o Opt(s.DATEAFTER # "", <<"--dateafter", s.DATEAFTER>>)
    \o Opt(s.LIVE_FROM_START, <<"--live-from-start">>)
    \o Opt(IsPlaylist(it), <<"--ignore-errors">>)
    \o Opt(s.ENABLE_ARCHIVE, <<"--download-archive", s.ARCHIVE_PATH>>)
    \o Opt(s.PLAYLIST_REVERSE, <<"--playlist-reverse">>)
    \o Opt(s.PLAYLIST_ITEMS # "", <<"--playlist-items", s.PLAYLIST_ITEMS>>)
    \o Opt(s.CLIP_START # "" /\ s.CLIP_END # "",
           <<"--download-sections", "*" \o s.CLIP_START \o "-" \o s.CLIP_END>>)
    \o OutputArgs(it, s)
    \o FormatArgs(it, s)
    \o SponsorBlockArgs(it, s)
    \o ChaptersArgs(s)
    \o SubtitleArgs(s)
    \o Opt(s.CUSTOM_FFMPEG_ARGS # "",
           <<"--postprocessor-args",
             "ffmpeg:\"" \o EscapeQuotes(s.CUSTOM_FFMPEG_ARGS) \o "\"">>)
    \o <<it.url>>

(***************************************************************************)
(* DownloadWorker._build_command of the packaged worker                    *)
(* (ytget_gui/workers/download_worker.py)                                   *)
(***************************************************************************)
\* re.sub(r'[\\/:*?"<>|]', " ", name)
RECURSIVE ReplaceForbidden(_)
ReplaceForbidden(name) ==
    IF name = "" THEN ""
    ELSE (IF \E i \in 1..9 : SubSeq("\\/:*?\"<>|", i, i) = SubSeq(name, 1, 1)
          THEN " " ELSE SubSeq(name, 1, 1))
         \o ReplaceForbidden(SubSeq(name, 2, Len(name)))

\* re.sub(r"\s+", " ", name), for names whose only white space is the blank
RECURSIVE CollapseSpaces(_)
CollapseSpaces(name) ==
    IF Len(name) < 2 THEN name
    ELSE IF SubSeq(name, 1, 2) = "  " THEN CollapseSpaces(SubSeq(name, 2, Len(name)))
    ELSE SubSeq(name, 1, 1) \o CollapseSpaces(SubSeq(name, 2, Len(name)))

\* name.rstrip(" .")
RECURSIVE RStripDots(_)
RStripDots(name) ==
    IF name = "" THEN ""
    ELSE IF SubSeq(name, Len(name), Len(name)) \in {" ", "."}
         THEN RStripDots(SubSeq(name, 1, Len(name) - 1))
    ELSE name

\* name.upper(), for ASCII letters
RECURSIVE Upper(_)
Upper(name) ==
    IF name = "" THEN ""
    ELSE LET c == SubSeq(name, 1, 1)
             lower == "abcdefghijklmnopqrstuvwxyz"
             upper == "ABCDEFGHIJKLMNOPQRSTUVWXYZ"
         IN  (IF \E i \in 1..26 : SubSeq(lower, i, i) = c
              THEN LET i == CHOOSE i \in 1..26 : SubSeq(lower, i, i) = c
                   IN  SubSeq(upper, i, i)
              ELSE c)
             \o Upper(SubSeq(name, 2, Len(name)))

ReservedNames ==
    {"CON", "PRN", "AUX", "NUL"}
    \cup {"COM" \o Digit(i) : i \in 1..9} \cup {"LPT" \o Digit(i) : i \in 1..9}

\* _safe_filename, for titles of printable characters that are shorter than
\* the limit of 180 characters
SafeFilename(name) ==
    IF name = "" THEN "Unknown"
    ELSE LET cleaned == RStripDots(Strip(CollapseSpaces(ReplaceForbidden(name))))
             marked == IF Upper(cleaned) \in ReservedNames THEN cleaned \o "_"
                       ELSE cleaned
         IN  IF marked = "" THEN "Unknown" ELSE marked

GuiIsAudioDownload(it) ==
    it.format_code \in {"bestaudio", "playlist_mp3", "youtube_music", "audio_flac"}

\* _should_force_title: a single item, no cookie file and no browser
ShouldForceTitle(it, s, cookies) ==
    ~IsPlaylist(it) /\ ~cookies /\ s.COOKIES_FROM_BROWSER = ""

GuiOutputArgs(it, s, cookies) ==
    LET base == s.DOWNLOADS_DIR
                \o (IF IsPlaylist(it) THEN "/%(playlist_title)s" ELSE "")
                \o (IF s.ORGANIZE_BY_UPLOADER THEN "/%(uploader)s" ELSE "")
        fallback == IF s.YT_MUSIC_METADATA /\ (GuiIsAudioDownload(it) \/ IsPlaylist(it))
                    THEN "%(artist)s - %(title)s.%(ext)s" ELSE "%(title)s.%(ext)s"
        filename == IF ShouldForceTitle(it, s, cookies)
                    THEN SafeFilename(it.title) \o ".%(ext)s" ELSE fallback
    IN  Opt(IsPlaylist(it), <<"--yes-playlist">>) \o <<"-o", base \o "/" \o filename>>

\* VIDEO_FORMAT.lstrip(".")
RECURSIVE LStripDot(_)
LStripDot(x) ==
    IF x # "" /\ SubSeq(x, 1, 1) = "." THEN LStripDot(SubSeq(x, 2, Len(x))) ELSE x

GuiFormatArgs(it, s) ==
    IF GuiIsAudioDownload(it)
    THEN LET is_flac == it.format_code = "audio_flac"
         IN  <<"-f", "bestaudio", "--extract-audio", "--audio-format",
               IF is_flac THEN "flac" ELSE "mp3", "--embed-thumbnail">>
             \o Opt(s.ADD_METADATA, <<"--add-metadata">>)
             \o Opt(~is_flac, <<"--audio-quality", "0">>)
             \o Opt(is_flac, <<"--postprocessor-args",
                               "ffmpeg:-compression_level 12 -sample_fmt s16">>)
             \o Opt(it.format_code = "youtube_music" /\ s.YT_MUSIC_METADATA,
                    <<"--parse-metadata", "description:(?s)(?P<meta_comment>.+)",
                      "--parse-metadata", "%(meta_comment)s:(?P<artist>[^\n]+)",
                      "--parse-metadata", "%(meta_comment)s:.+ - (?P<title>[^\n]+)">>)
    ELSE LET wanted == IF LStripDot(s.VIDEO_FORMAT) = "" THEN "mkv"
                       ELSE LStripDot(s.VIDEO_FORMAT)
             preferred == IF wanted \in {"mkv", "mp4", "webm"} THEN wanted ELSE "mkv"
         IN  <<"-f", IF it.format_code = "" THEN "best" ELSE it.format_code,
               "--merge-output-format", preferred>>
             \o Opt(s.ADD_METADATA, <<"--add-metadata">>)

ThumbnailFormat(s) == IF s.THUMBNAIL_FORMAT = "" THEN "png" ELSE s.THUMBNAIL_FORMAT

GuiThumbnailArgs(it, s) ==
    Opt(s.WRITE_THUMBNAIL, <<"--write-thumbnail">>)
    \o Opt(s.CONVERT_THUMBNAILS, <<"--convert-thumbnails", ThumbnailFormat(s)>>)
    \o Opt(s.EMBED_THUMBNAIL /\ ~GuiIsAudioDownload(it),
           <<"--embed-thumbnail", "--postprocessor-args",
             "ffmpeg:-metadata:s:t mimetype=image/" \o ThumbnailFormat(s)
             \o " -metadata:s:t filename=cover." \o ThumbnailFormat(s)>>)

\* the lines _build_command hands to _add_log while it builds
GuiBuildLog(it, s) ==
    Opt(s.EMBED_THUMBNAIL /\ ~GuiIsAudioDownload(it), <<"log:embed_thumbnail">>)

GuiBuildCommand(it, s, cookies) ==
    <<s.YT_DLP_PATH, "--no-warnings", "--progress", "--newline",
      "--output-na-placeholder", "Unknown", "--ffmpeg-location", s.FFMPEG_DIR>>
    \o Opt(cookies, <<"--cookies", s.COOKIES_PATH>>)
    \o Opt(s.COOKIES_FROM_BROWSER # "", <<"--cookies-from-browser", s.COOKIES_FROM_BROWSER>>)
    \o Opt(s.PROXY_URL # "", <<"--proxy", s.PROXY_URL>>)
    \o Opt(s.LIMIT_RATE # "", <<"--limit-rate", s.LIMIT_RATE>>)
    \o <<"--retries", IntToStr(s.RETRIES)>>
    \o Opt(s.DATEAFTER # "", <<"--dateafter", s.DATEAFTER>>)
    \o Opt(s.LIVE_FROM_START, <<"--live-from-start">>)
    \o Opt(IsPlaylist(it), <<"--ignore-errors">>)
    \o Opt(s.ENABLE_ARCHIVE, <<"--download-archive", s.ARCHIVE_PATH>>)
    \o Opt(s.PLAYLIST_REVERSE, <<"--playlist-reverse">>)
    \o Opt(s.PLAYLIST_ITEMS # "", <<"--playlist-items", s.PLAYLIST_ITEMS>>)
    \o Opt(s.CLIP_START # "" /\ s.CLIP_END # "",
           <<"--download-sections", "*" \o s.CLIP_START \o "-" \o s.CLIP_END>>)
    \o GuiOutputArgs(it, s, cookies)
    \o GuiFormatArgs(it, s)
    \o SponsorBlockArgs(it, s)
    \o ChaptersArgs(s)
    \o SubtitleArgs(s)
    \o GuiThumbnailArgs(it, s)
    \o Opt(s.CUSTOM_FFMPEG_ARGS # "",
           <<"--postprocessor-args", "ffmpeg:" \o s.CUSTOM_FFMPEG_ARGS>>)
    \o <<it.url>>

(***************************************************************************)
(* The signals a worker emits.                                             *)
(***************************************************************************)
ExitCodes == {0, 1}

CodeStr(c) == IF c < 0 THEN "-" \o IntToStr(0 - c) ELSE IntToStr(c)

FinishedSig(c) == "finished(" \o CodeStr(c) \o ")"

IsFinishedSig(e) == e \in {FinishedSig(c) : c \in ExitCodes \cup {-1}}

\* a queued finished signal; stale once the worker that emitted it was replaced
FinishedEvent(c) == [kind |-> "finished", code |-> c, stale |-> FALSE]

CoverEvent == [kind |-> "cover", code |-> 0, stale |-> FALSE]

\* how CoverCropWorker.run ends: covers were cropped, no MP3 file was found, or
\* the scan raised
CoverOutcomes == {"cropped", "no_mp3", "raised"}

\* the finished signals of one CoverCropWorker.run: one from the finally
\* clause, and one more before the early return when no MP3 file was found.
\* The signal has no argument; code records a run that raised.
CoverFinishedSignals(outcome) ==
    LET ev == [CoverEvent EXCEPT !.code = IF outcome = "raised" THEN -1 ELSE 0]
    IN  IF outcome = "no_mp3" THEN <<ev, ev>> ELSE <<ev>>

MarkStale(events) ==
    [i \in 1..Len(events) |->
        IF events[i].kind = "finished" THEN [events[i] EXCEPT !.stale = TRUE]
        ELSE events[i]]

(***************************************************************************)
(* MainWindow: helpers of the handlers.                                    *)
(***************************************************************************)
\* _refresh_queue_list: one row per item, marked active when it equals the
\* current item (dict equality)
RefreshQueueList(q, cur) ==
    [i \in 1..Len(q) |-> [title |-> q[i].title, url |-> q[i].url,
                          active |-> (<<q[i]>> = cur)]]

\* _update_button_states
StartEnabled(q, paused, dl) == q # <<>> /\ (paused \/ ~dl)
PauseEnabled(paused, dl) == dl /\ ~paused

\* the last step: the handler, the exit code it was given, whether the signal
\* came from a replaced worker, whether the handler refused an active
\* download, whether it called _on_queue_finished, and the end-of-queue action
\* it handed to _perform_post_queue_action ("" when it did not call it)
Last(op) == [op |-> op, code |-> 0, stale |-> FALSE, rejected |-> FALSE,
             drained |-> FALSE, action |-> ""]

\* a driver that would skip the head when another item waits
SecondItem(q) == q[IF Len(q) > 1 THEN 2 ELSE 1]

\* a driver that would take the item added last
LastItem(q) == q[Len(q)]

\* the item _download_next makes current
NextItem(q) == q[1]

\* _download_next past its guard: the head becomes current and a new worker is
\* started for it, after the previous download thread was made to quit and
\* waited for (the wait returns once that thread's run() has returned).  The
\* worker that is replaced is released, its process with it.
Launch(q, rest, att, by_start) ==
    /\ run_pc \in {"idle", "loop", "dead"}
    /\ is_downloading' = TRUE
    /\ current_download_item' = <<NextItem(q)>>
    /\ queue_list' = RefreshQueueList(q, <<NextItem(q)>>)
    /\ btn_start_enabled' = StartEnabled(q, queue_paused', TRUE)
    /\ btn_pause_enabled' = PauseEnabled(queue_paused', TRUE)
    /\ download_worker' = "worker"
    /\ run_pc' = "launched"
    /\ run_item' = <<NextItem(q)>>
    /\ cancel_requested' = FALSE
    /\ process' = "None"
    /\ cmd' = <<>>
    /\ emitted' = <<>>
    /\ terminal_processed' = FALSE
    /\ launch_settings' = <<settings>>
    /\ inbox' = MarkStale(rest)
    /\ cover_thread' = cover_thread
    /\ attempt' = IF att # <<>> /\ att[1].failed
                   THEN <<[att[1] EXCEPT !.resumed = by_start]>> ELSE <<>>

worker_vars == <<download_worker, run_pc, run_item, cancel_requested, process,
                 cmd, emitted, terminal_processed, launch_settings, attempt>>
run_vars == <<download_worker, run_pc, run_item, cancel_requested, process,
              cmd, emitted, terminal_processed, launch_settings>>
env_vars == <<settings, post_queue_action, disk, cookie_file>>

\* a drain that would report the cover worker finished when it starts it
OnQueueFinishedReportsAtOnce(rest) ==
    IF settings.CROP_AUDIO_COVERS
    THEN /\ cover_thread' = TRUE
         /\ inbox' = Append(rest, CoverEvent)
    ELSE /\ cover_thread' = cover_thread
         /\ inbox' = rest

\* _on_queue_finished: the cover worker is started when CROP_AUDIO_COVERS is
\* set (a cover thread still running is quit and waited for first, which posts
\* its finished signal); otherwise the post-queue action is performed at once.
OnQueueFinished(rest) ==
    IF settings.CROP_AUDIO_COVERS
    THEN /\ cover_thread' = TRUE
         /\ IF cover_thread
            THEN \E outcome \in CoverOutcomes :
                     inbox' = rest \o CoverFinishedSignals(outcome)
            ELSE inbox' = rest
    ELSE /\ cover_thread' = cover_thread
         /\ inbox' = rest

\* an add that would put the new item before the others
AddAtHead(item) ==
    /\ Len(queue) < MaxQueue
    /\ queue' = <<item>> \o queue
    /\ queue_list' = RefreshQueueList(queue', current_download_item)
    /\ btn_start_enabled' = StartEnabled(queue', queue_paused, is_downloading)
    /\ btn_pause_enabled' = PauseEnabled(queue_paused, is_downloading)
    /\ last' = Last("add")
    /\ UNCHANGED <<current_download_item, is_downloading, queue_paused,
                   cover_thread, inbox>>
    /\ UNCHANGED <<worker_vars, env_vars>>
    /\ UNCHANGED title_fetcher
    /\ UNCHANGED log_buffer
    /\ UNCHANGED thumb_manager
    /\ UNCHANGED gui_worker

(***************************************************************************)
(* MainWindow: the handlers, each one step of the interface thread.        *)
(***************************************************************************)
\* _on_title_fetched: the title fetcher reported a title for a URL
OnTitleFetched(item) ==
    /\ Len(queue) < MaxQueue
    /\ queue' = Append(queue, item)
    /\ queue_list' = RefreshQueueList(queue', current_download_item)
    /\ btn_start_enabled' = StartEnabled(queue', queue_paused, is_downloading)
    /\ btn_pause_enabled' = PauseEnabled(queue_paused, is_downloading)
    /\ last' = Last("add")
    /\ UNCHANGED <<current_download_item, is_downloading, queue_paused,
                   cover_thread, inbox>>
    /\ UNCHANGED <<worker_vars, env_vars>>
    /\ UNCHANGED title_fetcher
    /\ UNCHANGED log_buffer
    /\ UNCHANGED thumb_manager
    /\ UNCHANGED gui_worker

\* how one TitleFetcher.run ends: yt-dlp printed a JSON object, it exited
\* with a non-zero code, it printed nothing, its first line was not JSON, it
\* ran into the 120 s timeout, or anything else raised
TitleOutcomes == {"fetched", "nonzero_exit", "empty_output", "malformed",
                  "timeout", "raised"}

\* a fetcher whose non-zero exit would not return but go on to report a title
TitleFetcherSignalsFallThrough(outcome) ==
    IF outcome = "fetched" THEN <<"title_fetched", "finished">>
    ELSE IF outcome = "nonzero_exit"
         THEN <<"error", "finished", "title_fetched", "finished">>
    ELSE IF outcome = "empty_output" THEN <<"error", "finished", "finished">>
    ELSE <<"error", "finished">>

\* TitleFetcher.run: the signals of one run, in order.  The two early returns
\* emit finished themselves and the finally clause emits it once more.
TitleFetcherSignals(outcome) ==
    IF outcome = "fetched" THEN <<"title_fetched", "finished">>
    ELSE IF outcome \in {"nonzero_exit", "empty_output"}
         THEN <<"error", "finished", "finished">>
    ELSE <<"error", "finished">>

\* the title yt-dlp reports for a URL
TitleOf(url) == (CHOOSE it \in ItemChoices : it.url = url).title

\* the signals of a run that are connected to slots of the window
\* (finished only quits the thread), as they wait in the event queue
TitleEvents(url, sigs) ==
    LET reports == SelectSeq(sigs, LAMBDA sig : sig # "finished")
    IN  [i \in 1..Len(reports) |->
            [kind |-> IF reports[i] = "title_fetched" THEN "title_fetched"
                      ELSE "title_error",
             code |-> 0, stale |-> FALSE, url |-> url,
             title |-> IF reports[i] = "title_fetched" THEN TitleOf(url)
                       ELSE ""]]

\* how often a run reported, a title or an error
TitleReports(sigs) ==
    Cardinality({i \in 1..Len(sigs) : sigs[i] \in {"title_fetched", "error"}})

\* the titles that are still to arrive: of a fetcher that runs and of the
\* title_fetched signals in the event queue
PendingTitles ==
    Cardinality({i \in 1..Len(inbox) : inbox[i].kind = "title_fetched"})
    + (IF title_fetcher # <<>> /\ title_fetcher[1].running THEN 1 ELSE 0)

\* _add_to_queue / _fetch_title: quit() and wait() return once the run() of
\* the previous fetcher has returned, then a new fetcher is started
FetchTitle(url) ==
    /\ IF title_fetcher = <<>> THEN TRUE ELSE ~title_fetcher[1].running
    /\ Len(queue) + PendingTitles < MaxQueue
    /\ title_fetcher' = <<[url |-> url, running |-> TRUE, emitted |-> <<>>]>>
    /\ last' = Last("fetch")
    /\ UNCHANGED <<queue, queue_list, current_download_item, is_downloading,
                   queue_paused, btn_start_enabled, btn_pause_enabled,
                   cover_thread, inbox>>
    /\ UNCHANGED <<worker_vars, env_vars>>
    /\ UNCHANGED log_buffer
    /\ UNCHANGED thumb_manager
    /\ UNCHANGED gui_worker

\* TitleFetcher.run, in the fetcher's thread
TitleFetcherRun ==
    /\ title_fetcher # <<>>
    /\ title_fetcher[1].running
    /\ Len(inbox) < MaxInbox
    /\ \E outcome \in TitleOutcomes :
        LET sigs == TitleFetcherSignals(outcome)
        IN  /\ title_fetcher' = <<[title_fetcher[1] EXCEPT !.running = FALSE,
                                                          !.emitted = sigs]>>
            /\ inbox' = inbox \o TitleEvents(title_fetcher[1].url, sigs)
    /\ UNCHANGED <<queue, queue_list, current_download_item, is_downloading,
                   queue_paused, btn_start_enabled, btn_pause_enabled,
                   cover_thread, last>>
    /\ UNCHANGED <<worker_vars, env_vars>>
    /\ UNCHANGED log_buffer
    /\ UNCHANGED thumb_manager
    /\ UNCHANGED gui_worker

\* _on_title_fetched, called for a queued title_fetched signal; the format is
\* the one the format box shows at that moment
OnTitleFetchedSignal ==
    /\ inbox # <<>>
    /\ Head(inbox).kind = "title_fetched"
    /\ Len(queue) < MaxQueue
    /\ \E item \in ItemChoices :
        /\ item.url = Head(inbox).url
        /\ item.title = Head(inbox).title
        /\ queue' = Append(queue, item)
    /\ inbox' = Tail(inbox)
    /\ queue_list' = RefreshQueueList(queue', current_download_item)
    /\ btn_start_enabled' = StartEnabled(queue', queue_paused, is_downloading)
    /\ btn_pause_enabled' = PauseEnabled(queue_paused, is_downloading)
    /\ last' = Last("add")
    /\ UNCHANGED <<current_download_item, is_downloading, queue_paused,
                   cover_thread, title_fetcher>>
    /\ UNCHANGED <<worker_vars, env_vars>>
    /\ UNCHANGED log_buffer
    /\ UNCHANGED thumb_manager
    /\ UNCHANGED gui_worker

\* _on_title_error, called for a queued error signal: it logs the message
OnTitleError ==
    /\ inbox # <<>>
    /\ Head(inbox).kind = "title_error"
    /\ inbox' = Tail(inbox)
    /\ last' = Last("title_error")
    /\ UNCHANGED <<queue, queue_list, current_download_item, is_downloading,
                   queue_paused, btn_start_enabled, btn_pause_enabled,
                   cover_thread, title_fetcher>>
    /\ UNCHANGED <<worker_vars, env_vars>>
    /\ UNCHANGED log_buffer
    /\ UNCHANGED thumb_manager
    /\ UNCHANGED gui_worker

\* _start_queue (the Start Queue button)
StartQueue ==
    /\ btn_start_enabled
    /\ IF (is_downloading /\ ~queue_paused) \/ queue = <<>>
       THEN UNCHANGED <<queue_paused, current_download_item, is_downloading,
                        queue_list, btn_start_enabled, btn_pause_enabled,
                        inbox, cover_thread, worker_vars>>
       ELSE /\ queue_paused' = FALSE
            /\ IF is_downloading
               THEN /\ btn_start_enabled' = StartEnabled(queue, FALSE, TRUE)
                    /\ btn_pause_enabled' = PauseEnabled(FALSE, TRUE)
                    /\ UNCHANGED <<current_download_item, is_downloading,
                                   queue_list, inbox, cover_thread, worker_vars>>
               ELSE Launch(queue, inbox, attempt, TRUE)
    /\ last' = Last("start")
    /\ UNCHANGED <<queue, env_vars>>
    /\ UNCHANGED title_fetcher
    /\ UNCHANGED log_buffer
    /\ UNCHANGED thumb_manager
    /\ UNCHANGED gui_worker

\* the cancel() calls of the live worker that found its process running
CancelCount(sigs) == Cardinality({i \in 1..Len(sigs) : sigs[i] = "log:cancelling"})

\* what process.state() == QProcess.Running can give: after an earlier cancel()
\* the process has exited within waitForFinished (not running), or kill() was
\* called and the exit was not noticed yet (still running)
StateIsRunning(p, sigs) ==
    IF p = "Running" THEN {TRUE}
    ELSE IF p = "Terminating" /\ CancelCount(sigs) < MaxCancels THEN BOOLEAN
    ELSE {FALSE}

\* DownloadWorker.cancel, called by the interface thread: the flag is set; a
\* process that runs is terminated, and killed when it has not exited in time
Cancel ==
    /\ cancel_requested' = TRUE
    /\ \E running \in StateIsRunning(process, emitted) :
         IF running
         THEN /\ emitted' = Append(emitted, "log:cancelling")
              /\ process' = "Terminating"
         ELSE UNCHANGED <<emitted, process>>

\* _pause_queue (the Pause Queue button)
PauseQueue ==
    /\ btn_pause_enabled
    /\ IF ~is_downloading
       THEN UNCHANGED <<queue_paused, btn_start_enabled, btn_pause_enabled,
                        cancel_requested, emitted, process>>
       ELSE /\ queue_paused' = TRUE
            /\ IF download_worker # "None"
               THEN Cancel
               ELSE UNCHANGED <<cancel_requested, emitted, process>>
            /\ btn_start_enabled' = StartEnabled(queue, TRUE, is_downloading)
            /\ btn_pause_enabled' = PauseEnabled(TRUE, is_downloading)
    /\ last' = Last("pause")
    /\ UNCHANGED <<queue, current_download_item, is_downloading, download_worker,
                   queue_list, cover_thread, inbox, run_pc, run_item,
                   cmd, terminal_processed, launch_settings, attempt>>
    /\ UNCHANGED env_vars
    /\ UNCHANGED title_fetcher
    /\ UNCHANGED log_buffer
    /\ UNCHANGED thumb_manager
    /\ UNCHANGED gui_worker

\* a driver that would pop the head whatever the exit code
FinishedQueuePopsAlways(q, exit) == IF q # <<>> THEN Tail(q) ELSE q

\* a driver that would advance although the queue is paused
AdvanceIgnoringPause(q, paused) == q # <<>>

\* _on_download_finished: the queue after the exit code was looked at
FinishedQueue(q, exit) == IF exit = 0 /\ q # <<>> THEN Tail(q) ELSE q

\* _on_download_finished: is _download_next called
AdvanceAfterFinish(q, paused) == ~paused /\ q # <<>>

\* history: a run of the head item whose own finished signal carried a
\* failure's exit code is remembered as failed; any other outcome of it, or a
\* pop, ends the memory
AttemptAfter(ev, popped) ==
    IF attempt = <<>> \/ popped THEN <<>>
    ELSE IF ev.stale THEN attempt
    ELSE IF ev.code > 0 /\ queue # <<>> /\ queue[1] = attempt[1].item
    THEN <<[attempt[1] EXCEPT !.failed = TRUE]>>
    ELSE <<>>

\* _on_download_finished, then QThread.quit of the emitting worker's thread:
\* both slots are connected to the worker's finished signal
OnDownloadFinished ==
    /\ inbox # <<>>
    /\ Head(inbox).kind = "finished"
    /\ LET ev == Head(inbox)
           q == FinishedQueue(queue, ev.code)
       IN  /\ queue' = q
           /\ queue_paused' = queue_paused
           /\ IF AdvanceAfterFinish(q, queue_paused)
              THEN Launch(q, Tail(inbox), AttemptAfter(ev, q # queue), FALSE)
              ELSE /\ is_downloading' = FALSE
                   /\ current_download_item' = <<>>
                   /\ queue_list' = RefreshQueueList(q, <<>>)
                   /\ btn_start_enabled' = StartEnabled(q, queue_paused, FALSE)
                   /\ btn_pause_enabled' = PauseEnabled(queue_paused, FALSE)
                   /\ run_pc' = IF ev.stale THEN run_pc ELSE "dead"
                   /\ terminal_processed' = (terminal_processed \/ ~ev.stale)
                   /\ IF q = <<>>
                      THEN OnQueueFinished(Tail(inbox))
                      ELSE /\ inbox' = Tail(inbox)
                           /\ cover_thread' = cover_thread
                   /\ attempt' = AttemptAfter(ev, q # queue)
                   /\ UNCHANGED <<download_worker, run_item, cancel_requested,
                                  launch_settings, process, cmd, emitted>>
           /\ last' = [Last("finished") EXCEPT
                          !.code = ev.code, !.stale = ev.stale,
                          !.drained = ~AdvanceAfterFinish(q, queue_paused) /\ q = <<>>,
                          !.action = IF ~AdvanceAfterFinish(q, queue_paused)
                                        /\ q = <<>> /\ ~settings.CROP_AUDIO_COVERS
                                     THEN post_queue_action ELSE ""]
    /\ UNCHANGED env_vars
    /\ UNCHANGED title_fetcher
    /\ UNCHANGED log_buffer
    /\ UNCHANGED thumb_manager
    /\ UNCHANGED gui_worker

\* list.pop(index) and list.insert(index, x), index counted from 0
RemoveAt(q, index) == SubSeq(q, 1, index) \o SubSeq(q, index + 2, Len(q))
InsertAt(q, index, x) == SubSeq(q, 1, index) \o <<x>> \o SubSeq(q, index + 1, Len(q))

InRange(q, index) == 0 <= index /\ index < Len(q)

\* a guard that would never refuse
NeverActiveDownload(q, index, dl, cur) == FALSE

\* the guard of _remove_queue_item
IsActiveDownload(q, index, dl, cur) == dl /\ <<q[index + 1]>> = cur

\* a guard that looks at the row moved and not at the row it displaces
MovesActiveRowOnly(q, index, new_index, dl, cur) == dl /\ <<q[index + 1]>> = cur

\* the guard of _move_queue_item
MovesActiveDownload(q, index, new_index, dl, cur) ==
    dl /\ (<<q[index + 1]>> = cur \/ <<q[new_index + 1]>> = cur)

\* _remove_queue_item (the delete button of a row)
RemoveQueueItem(index) ==
    /\ IF ~InRange(queue, index)
       THEN UNCHANGED <<queue, queue_list, btn_start_enabled, btn_pause_enabled>>
       ELSE IF IsActiveDownload(queue, index, is_downloading, current_download_item)
       THEN UNCHANGED <<queue, queue_list, btn_start_enabled, btn_pause_enabled>>
       ELSE /\ queue' = RemoveAt(queue, index)
            /\ queue_list' = RefreshQueueList(queue', current_download_item)
            /\ btn_start_enabled' = StartEnabled(queue', queue_paused, is_downloading)
            /\ btn_pause_enabled' = PauseEnabled(queue_paused, is_downloading)
    /\ attempt' = IF queue' = queue THEN attempt ELSE <<>>
    /\ last' = [Last("remove") EXCEPT !.rejected =
                   InRange(queue, index)
                   /\ IsActiveDownload(queue, index, is_downloading,
                                       current_download_item)]
    /\ UNCHANGED <<current_download_item, is_downloading, queue_paused,
                   cover_thread, inbox>>
    /\ UNCHANGED <<run_vars, env_vars>>
    /\ UNCHANGED title_fetcher
    /\ UNCHANGED log_buffer
    /\ UNCHANGED thumb_manager
    /\ UNCHANGED gui_worker

\* _move_queue_item (the up and down buttons of a row)
MoveQueueItem(index, step) ==
    /\ LET new_index == index + step
       IN  IF ~(InRange(queue, index) /\ InRange(queue, new_index))
           THEN UNCHANGED <<queue, queue_list>>
           ELSE IF MovesActiveDownload(queue, index, new_index, is_downloading,
                                       current_download_item)
           THEN UNCHANGED <<queue, queue_list>>
           ELSE /\ queue' = InsertAt(RemoveAt(queue, index), new_index, queue[index + 1])
                /\ queue_list' = RefreshQueueList(queue', current_download_item)
    /\ attempt' = IF queue' = queue THEN attempt ELSE <<>>
    /\ last' = [Last("move") EXCEPT !.rejected =
                   InRange(queue, index) /\ InRange(queue, index + step)
                   /\ MovesActiveDownload(queue, index, index + step,
                                          is_downloading, current_download_item)]
    /\ UNCHANGED <<current_download_item, is_downloading, queue_paused,
                   btn_start_enabled, btn_pause_enabled, cover_thread, inbox>>
    /\ UNCHANGED <<run_vars, env_vars>>
    /\ UNCHANGED title_fetcher
    /\ UNCHANGED log_buffer
    /\ UNCHANGED thumb_manager
    /\ UNCHANGED gui_worker

(***************************************************************************)
(* Queue files: json.dump of the list of dicts, json.load of a document.   *)
(***************************************************************************)
JsonObject(item) ==
    [type |-> "object",
     members |-> <<<<"url", item.url>>, <<"title", item.title>>,
                   <<"format_code", item.format_code>>>>]

JsonDump(q) == [type |-> "array", items |-> [i \in 1..Len(q) |-> JsonObject(q[i])]]

Member(obj, key) ==
    LET i == CHOOSE i \in 1..Len(obj.members) : obj.members[i][1] = key
    IN  obj.members[i][2]

JsonLoadItem(obj) ==
    [url |-> Member(obj, "url"), title |-> Member(obj, "title"),
     format_code |-> Member(obj, "format_code")]

JsonLoad(doc) == [i \in 1..Len(doc.items) |-> JsonLoadItem(doc.items[i])]

\* a file that holds a JSON object, not an array
ForeignDocument == [type |-> "object", items |-> <<>>]

\* a queue file of an earlier session
EarlierDocument == JsonDump(<<ItemMusic>>)

\* _save_queue_to_disk (File > Save Queue), a path chosen in the dialog
SaveQueueToDisk ==
    /\ IF queue = <<>>
       THEN UNCHANGED <<disk, queue_list>>
       ELSE /\ disk' = <<JsonDump(queue)>>
            /\ queue_list' = RefreshQueueList(queue, current_download_item)
    /\ last' = Last("save")
    /\ UNCHANGED <<queue, current_download_item, is_downloading, queue_paused,
                   btn_start_enabled, btn_pause_enabled, cover_thread, inbox,
                   settings, post_queue_action, cookie_file>>
    /\ UNCHANGED worker_vars
    /\ UNCHANGED title_fetcher
    /\ UNCHANGED log_buffer
    /\ UNCHANGED thumb_manager
    /\ UNCHANGED gui_worker

\* a load that would take any JSON value for a queue
AnyDocument(doc) == TRUE

\* isinstance(loaded, list)
IsQueueDocument(doc) == doc.type = "array"

\* _load_queue_from_disk (File > Load Queue), a file chosen in the dialog; a
\* load that is refused logs a warning (download active) or an error report
LoadQueueFromDisk(doc) ==
    /\ IF is_downloading \/ ~IsQueueDocument(doc)
       THEN UNCHANGED <<queue, queue_list, btn_start_enabled, btn_pause_enabled>>
       ELSE /\ queue' = JsonLoad(doc)
            /\ queue_list' = RefreshQueueList(queue', current_download_item)
            /\ btn_start_enabled' = StartEnabled(queue', queue_paused, is_downloading)
            /\ btn_pause_enabled' = PauseEnabled(queue_paused, is_downloading)
    /\ attempt' = IF queue' = queue THEN attempt ELSE <<>>
    /\ last' = [Last("load") EXCEPT
                   !.rejected = is_downloading \/ ~IsQueueDocument(doc)]
    /\ UNCHANGED <<current_download_item, is_downloading, queue_paused,
                   cover_thread, inbox>>
    /\ UNCHANGED <<run_vars, env_vars>>
    /\ UNCHANGED title_fetcher
    /\ UNCHANGED log_buffer
    /\ UNCHANGED thumb_manager
    /\ UNCHANGED gui_worker

(***************************************************************************)
(* PreferencesDialog: validation on Save, and the settings it hands back.  *)
(***************************************************************************)
StartsWith(s, prefix) == Len(s) >= Len(prefix) /\ SubSeq(s, 1, Len(prefix)) = prefix

\* s.split(",")
RECURSIVE SplitComma(_)
SplitComma(s) ==
    IF \E i \in 1..Len(s) : SubSeq(s, i, i) = ","
    THEN LET i == CHOOSE i \in 1..Len(s) :
                    /\ SubSeq(s, i, i) = ","
                    /\ \A j \in 1..(i - 1) : SubSeq(s, j, j) # ","
         IN  <<SubSeq(s, 1, i - 1)>> \o SplitComma(SubSeq(s, i + 1, Len(s)))
    ELSE <<s>>

LangTokens(langs) ==
    LET parts == SplitComma(langs)
    IN  SelectSeq([i \in 1..Len(parts) |-> Strip(parts[i])], LAMBDA x : x # "")

\* a validation that looks at the proxy only
PrefsValidateProxyOnly(new) ==
    \/ Strip(new.PROXY_URL) = ""
    \/ StartsWith(Strip(new.PROXY_URL), "http://")
    \/ StartsWith(Strip(new.PROXY_URL), "socks5://")

\* _validate, for a dialog whose date field is empty
PrefsValidate(new) ==
    /\ Strip(new.PROXY_URL) = ""
       \/ StartsWith(Strip(new.PROXY_URL), "http://")
       \/ StartsWith(Strip(new.PROXY_URL), "socks5://")
    /\ new.WRITE_SUBS =>
         /\ Strip(new.SUB_LANGS) # ""
         /\ LangTokens(Strip(new.SUB_LANGS)) # <<>>
         /\ \A i \in 1..Len(LangTokens(Strip(new.SUB_LANGS))) :
                LET n == Len(LangTokens(Strip(new.SUB_LANGS))[i]) IN 2 <= n /\ n <= 3

\* what the user may have entered in the dialog when pressing Save
SubsWithoutLangs == [BaseSettings EXCEPT !.WRITE_SUBS = TRUE, !.SUB_LANGS = ""]
SubsWithBlankLangs == [BaseSettings EXCEPT !.WRITE_SUBS = TRUE, !.SUB_LANGS = " "]
DialogChoices == SettingsChoices \cup {SubsWithoutLangs, SubsWithBlankLangs}

\* _show_preferences: the fields the dialog returns are copied when it was
\* accepted (get_settings strips the text fields); the clip fields belong to
\* the advanced options dialog
ApplyPreferences(s, new) ==
    [new EXCEPT !.PROXY_URL = Strip(new.PROXY_URL),
                !.SUB_LANGS = Strip(new.SUB_LANGS),
                !.CLIP_START = s.CLIP_START, !.CLIP_END = s.CLIP_END,
                !.YT_DLP_PATH = s.YT_DLP_PATH, !.FFMPEG_DIR = s.FFMPEG_DIR,
                !.DOWNLOADS_DIR = s.DOWNLOADS_DIR,
                !.VIDEO_FORMAT = s.VIDEO_FORMAT,
                !.WRITE_THUMBNAIL = s.WRITE_THUMBNAIL,
                !.CONVERT_THUMBNAILS = s.CONVERT_THUMBNAILS,
                !.THUMBNAIL_FORMAT = s.THUMBNAIL_FORMAT,
                !.EMBED_THUMBNAIL = s.EMBED_THUMBNAIL]

ShowPreferences(new) ==
    /\ settings' = IF PrefsValidate(new) THEN ApplyPreferences(settings, new)
                   ELSE settings
    /\ attempt' = IF settings' = settings THEN attempt ELSE <<>>
    /\ last' = [Last("preferences") EXCEPT !.rejected = ~PrefsValidate(new)]
    /\ UNCHANGED <<queue, current_download_item, is_downloading, queue_paused,
                   queue_list, btn_start_enabled, btn_pause_enabled, cover_thread,
                   inbox, post_queue_action, disk, cookie_file>>
    /\ UNCHANGED run_vars
    /\ UNCHANGED title_fetcher
    /\ UNCHANGED log_buffer
    /\ UNCHANGED thumb_manager
    /\ UNCHANGED gui_worker

PostQueueActions == {"Keep", "Shutdown"}

\* _set_post_queue_action (Settings > When Queue Finishes...)
SetPostQueueAction(action) ==
    /\ post_queue_action' = action
    /\ last' = Last("set_action")
    /\ UNCHANGED <<queue, current_download_item, is_downloading, queue_paused,
                   queue_list, btn_start_enabled, btn_pause_enabled, cover_thread,
                   inbox, settings, disk, cookie_file>>
    /\ UNCHANGED worker_vars
    /\ UNCHANGED title_fetcher
    /\ UNCHANGED log_buffer
    /\ UNCHANGED thumb_manager
    /\ UNCHANGED gui_worker

\* the cover worker's finished signal reaches the window:
\* _perform_post_queue_action(self.post_queue_action)
OnCoverFinished ==
    /\ inbox # <<>>
    /\ Head(inbox).kind = "cover"
    /\ inbox' = Tail(inbox)
    /\ last' = [Last("cover") EXCEPT !.code = Head(inbox).code,
                                     !.action = post_queue_action]
    /\ UNCHANGED <<queue, current_download_item, is_downloading, queue_paused,
                   queue_list, btn_start_enabled, btn_pause_enabled, cover_thread>>
    /\ UNCHANGED <<worker_vars, env_vars>>
    /\ UNCHANGED title_fetcher
    /\ UNCHANGED log_buffer
    /\ UNCHANGED thumb_manager
    /\ UNCHANGED gui_worker

(***************************************************************************)
(* CoverCropWorker.run, in its own thread: finished is emitted on every    *)
(* path, twice when there is no MP3 file.                                  *)
(***************************************************************************)
CoverCropRun ==
    /\ cover_thread
    /\ Len(inbox) < MaxInbox
    /\ cover_thread' = FALSE
    /\ \E outcome \in CoverOutcomes :
           inbox' = inbox \o CoverFinishedSignals(outcome)
    /\ last' = Last("env")
    /\ UNCHANGED <<queue, current_download_item, is_downloading, queue_paused,
                   queue_list, btn_start_enabled, btn_pause_enabled>>
    /\ UNCHANGED <<worker_vars, env_vars>>
    /\ UNCHANGED title_fetcher
    /\ UNCHANGED log_buffer
    /\ UNCHANGED thumb_manager
    /\ UNCHANGED gui_worker

(***************************************************************************)
(* DownloadWorker, in the worker's thread.                                 *)
(***************************************************************************)
window_vars == <<queue, current_download_item, is_downloading, queue_paused,
                 download_worker, queue_list, btn_start_enabled,
                 btn_pause_enabled, cover_thread, run_item, terminal_processed>>

\* run() up to process.start: the command is built from the settings object
\* as it is now; an exception is reported and ends the run
RunStart ==
    /\ run_pc = "launched"
    /\ \E raised \in BOOLEAN :
         IF raised
         THEN /\ Len(inbox) < MaxInbox
              /\ emitted' = emitted \o <<"error:preparing", FinishedSig(-1)>>
              /\ inbox' = Append(inbox, FinishedEvent(-1))
              /\ run_pc' = "loop"
              /\ UNCHANGED <<cmd, process, attempt>>
         ELSE /\ cmd' = BuildCommand(run_item[1], settings, cookie_file)
              /\ emitted' = emitted \o <<"log:starting">>
              /\ process' = "Starting"
              /\ run_pc' = "waitForStarted"
              /\ inbox' = inbox
              /\ attempt' = <<[item |-> run_item[1], cmd |-> cmd', failed |-> FALSE,
                               resumed |-> attempt # <<>> /\ attempt[1].resumed,
                               retry_of |-> IF attempt # <<>> /\ attempt[1].failed
                                            THEN <<attempt[1].item, attempt[1].cmd>>
                                            ELSE <<>>]>>
    /\ launch_settings' = <<>>
    /\ last' = Last("env")
    /\ UNCHANGED <<window_vars, cancel_requested, env_vars>>
    /\ UNCHANGED title_fetcher
    /\ UNCHANGED log_buffer
    /\ UNCHANGED thumb_manager
    /\ UNCHANGED gui_worker

\* run(): waitForStarted(5000) returns
WaitForStarted ==
    /\ run_pc = "waitForStarted"
    /\ \E outcome \in {"started", "failed", "timeout"} :
         IF outcome = "started"
         THEN /\ process' = "Running"
              /\ UNCHANGED <<emitted, inbox>>
         ELSE /\ Len(inbox) < MaxInbox
              /\ process' = IF outcome = "failed" THEN "NotRunning" ELSE process
              /\ emitted' = emitted \o Opt(outcome = "failed", <<"log:process_error">>)
                                    \o <<"error:failed_to_start", FinishedSig(-1)>>
              /\ inbox' = Append(inbox, FinishedEvent(-1))
    /\ run_pc' = "loop"
    /\ last' = Last("env")
    /\ UNCHANGED <<window_vars, cancel_requested, launch_settings, cmd, attempt, env_vars>>
    /\ UNCHANGED title_fetcher
    /\ UNCHANGED log_buffer
    /\ UNCHANGED thumb_manager
    /\ UNCHANGED gui_worker

\* after a startup timeout the process is still starting: it starts, or fails
\* to (errorOccurred, _on_error), while the thread's event loop runs
LateStart ==
    /\ run_pc \in {"loop", "dead"}
    /\ process = "Starting"
    /\ \E started \in BOOLEAN :
         IF started
         THEN /\ process' = "Running"
              /\ UNCHANGED emitted
         ELSE /\ process' = "NotRunning"
              /\ emitted' = IF run_pc = "loop"
                            THEN Append(emitted, "log:process_error") ELSE emitted
    /\ last' = Last("env")
    /\ UNCHANGED <<window_vars, inbox, run_pc, cancel_requested, launch_settings, cmd,
                   attempt, env_vars>>
    /\ UNCHANGED title_fetcher
    /\ UNCHANGED log_buffer
    /\ UNCHANGED thumb_manager
    /\ UNCHANGED gui_worker

CleanupOutcomes(item) ==
    IF IsAudioDownload(item) THEN {"nothing", "cleaned", "failed"} ELSE {"nothing"}

\* a worker that would report a failed filename cleanup as a failed download
OnFinishedSignalsCleanupFatal(cancelled, code, cleanup) ==
    IF cancelled THEN <<"log:cancelled", FinishedSig(-1)>>
    ELSE IF code = 0 /\ cleanup # "failed"
    THEN <<"log:success">> \o Opt(cleanup = "cleaned", <<"log:cleaned">>)
                          \o <<FinishedSig(0)>>
    ELSE <<"log:cleanup_failed", FinishedSig(1)>>

\* _on_finished
OnFinishedSignals(cancelled, code, cleanup) ==
    IF cancelled THEN <<"log:cancelled", FinishedSig(-1)>>
    ELSE IF code = 0
    THEN <<"log:success">>
         \o Opt(cleanup = "cleaned", <<"log:cleaned">>)
         \o Opt(cleanup = "failed", <<"log:cleanup_failed">>)
         \o <<FinishedSig(0)>>
    ELSE <<"log:exit_code", FinishedSig(code)>>

OnFinishedCode(cancelled, code) == IF cancelled THEN -1 ELSE code

\* the process exits; QProcess.finished reaches _on_finished when the worker's
\* thread still runs its event loop
ProcessFinished(code) ==
    /\ process \in {"Running", "Terminating"}
    /\ process' = "NotRunning"
    /\ IF run_pc = "loop"
       THEN \E cleanup \in CleanupOutcomes(run_item[1]) :
              /\ Len(inbox) < MaxInbox
              /\ emitted' = emitted \o OnFinishedSignals(cancel_requested, code, cleanup)
              /\ inbox' = Append(inbox,
                                 FinishedEvent(OnFinishedCode(cancel_requested, code)))
       ELSE UNCHANGED <<emitted, inbox>>
    /\ last' = Last("env")
    /\ UNCHANGED <<window_vars, run_pc, cancel_requested, launch_settings, cmd, attempt, env_vars>>
    /\ UNCHANGED title_fetcher
    /\ UNCHANGED log_buffer
    /\ UNCHANGED thumb_manager
    /\ UNCHANGED gui_worker

\* the cookies file appears or disappears
CookieFileChange ==
    /\ cookie_file' = ~cookie_file
    /\ attempt' = <<>>
    /\ last' = Last("env")
    /\ UNCHANGED <<window_vars, inbox, run_pc, process, cancel_requested, launch_settings,
                   cmd, emitted, settings, post_queue_action, disk>>
    /\ UNCHANGED title_fetcher
    /\ UNCHANGED log_buffer
    /\ UNCHANGED thumb_manager
    /\ UNCHANGED gui_worker

(***************************************************************************)
(* The packaged DownloadWorker: its log buffer and its status throttle     *)
(* (ytget_gui/workers/download_worker.py).  A buffered line is its number   *)
(* since the buffer was last empty and its text; the clock counts          *)
(* milliseconds.                                                            *)
(***************************************************************************)
\* _add_log: with more than LogCap lines buffered it deletes the LogDrop oldest
LogCap == 1500

LogDrop == 700

\* _on_read flushes a buffer that holds more lines than this
FlushThreshold == 800

\* status_throttle_ms: the least time between two status signals
StatusThrottleMs == 2000

\* __init__: no status emitted yet (_last_status_text None, written "";
\* _last_status_emit 0.0), and time.time() far from 0; signals: what the worker
\* emitted in its last step; statuses: every status signal with its time
NewGuiWorker ==
    [now |-> StatusThrottleMs, last_status_text |-> "", last_status_emit |-> 0,
     signals |-> <<>>, statuses |-> <<>>]

\* the number of the line appended next
NextLogId(buf) == IF buf = <<>> THEN 1 ELSE buf[Len(buf)].id + 1

\* a buffer that is never cut
AddLogKeepAll(buf, text) == Append(buf, [id |-> NextLogId(buf), text |-> text])

\* _add_log: del self._log_buffer[:700] when more than 1500 are held, then append
AddLog(buf, text) ==
    Append(IF Len(buf) > LogCap THEN SubSeq(buf, LogDrop + 1, Len(buf)) ELSE buf,
           [id |-> NextLogId(buf), text |-> text])

\* _flush_logs: one log signal for each buffered line, in the buffer's order
FlushSignals(buf) ==
    [i \in 1..Len(buf) |-> [sig |-> "log", id |-> buf[i].id, text |-> buf[i].text]]

\* an output chunk: its text, the percentage _percent_re finds in its tail
\* ("" when there is none) and the token after "ETA" ("" when there is none)
ChunkChoices ==
    { [text |-> "[download] 10% ETA 00:05", pct |-> "10", eta |-> "00:05"],
      [text |-> "[download] 10%", pct |-> "10", eta |-> ""],
      [text |-> "[download] 50%", pct |-> "50", eta |-> ""],
      [text |-> "[Merger] Merging formats", pct |-> "", eta |-> ""] }

PlainChunk == [text |-> "[Merger] Merging formats", pct |-> "", eta |-> ""]

\* _on_read: the status text of a chunk, "" when it shows no percentage
StatusText(chunk) ==
    IF chunk.pct = "" THEN ""
    ELSE chunk.pct \o "%" \o (IF chunk.eta # "" THEN " ETA " \o chunk.eta ELSE "")

\* a throttle that looks at the text only
StatusDueTextOnly(text, now, last_text, last_emit) == text # last_text

\* _on_read: status_text != _last_status_text and
\* (now - _last_status_emit) >= _status_throttle_s
StatusDue(text, now, last_text, last_emit) ==
    text # last_text /\ now - last_emit >= StatusThrottleMs

LogUnchanged ==
    /\ UNCHANGED <<queue, current_download_item, is_downloading, queue_paused,
                   download_worker, queue_list, btn_start_enabled,
                   btn_pause_enabled, cover_thread, inbox, env_vars, run_pc,
                   run_item, cancel_requested, process, cmd, emitted,
                   terminal_processed, title_fetcher, thumb_manager,
                   launch_settings, attempt>>

\* _on_read, in the worker's thread: the chunk's text goes to the buffer, a
\* status that is due is emitted at once, and a buffer longer than
\* FlushThreshold is flushed
OnRead(chunk) ==
    /\ LET buf == AddLog(log_buffer, chunk.text)
           status_text == StatusText(chunk)
           due == /\ status_text # ""
                  /\ StatusDue(status_text, gui_worker.now,
                               gui_worker.last_status_text,
                               gui_worker.last_status_emit)
           flush == Len(buf) > FlushThreshold
       IN  /\ log_buffer' = IF flush THEN <<>> ELSE buf
           /\ gui_worker' =
                [gui_worker EXCEPT
                   !.last_status_text = IF due THEN status_text ELSE @,
                   !.last_status_emit = IF due THEN gui_worker.now ELSE @,
                   !.statuses = IF due
                                THEN Append(@, [text |-> status_text,
                                                time |-> gui_worker.now])
                                ELSE @,
                   !.signals = (IF due
                                THEN <<[sig |-> "status", id |-> NextLogId(log_buffer),
                                        text |-> status_text]>>
                                ELSE <<>>)
                               \o (IF flush THEN FlushSignals(buf) ELSE <<>>)]
    /\ last' = Last("on_read")
    /\ LogUnchanged

\* a caller that adds a line and leaves the flush to the timer
\* (_clean_music_video_tags, for every file it renames)
AddLogLine ==
    /\ log_buffer' = AddLog(log_buffer, "log:renamed")
    /\ gui_worker' = [gui_worker EXCEPT !.signals = <<>>]
    /\ last' = Last("add_log")
    /\ LogUnchanged

\* _flush_logs, on the timer's timeout or called by a handler: the buffer is
\* emitted line by line and emptied
FlushLogs ==
    /\ log_buffer # <<>>
    /\ log_buffer' = <<>>
    /\ gui_worker' = [gui_worker EXCEPT !.signals = FlushSignals(log_buffer)]
    /\ last' = Last("flush_logs")
    /\ LogUnchanged

\* time passes
Tick ==
    /\ gui_worker.now + TickMs <= MaxTimeMs
    /\ gui_worker' = [gui_worker EXCEPT !.now = @ + TickMs]
    /\ UNCHANGED <<log_buffer, last>>
    /\ LogUnchanged

(***************************************************************************)
(* ThumbManager and ThumbFetcher (ytget_gui/workers/thumb_fetcher.py)      *)
(***************************************************************************)
\* ThumbManager.__init__: an empty queue and the worker thread started;
\* history: the URLs put into the queue, the URLs taken from it, the fetchers
\* whose run() has not returned, how the runs that returned ended, and the
\* signals of the manager
NewThumbManager ==
    [queue |-> <<>>, stop_event |-> FALSE, pc |-> "while", active |-> {},
     enqueued |-> <<>>, taken |-> <<>>, outcomes |-> <<>>, emitted |-> <<>>]

\* how one ThumbFetcher.run ends: no thumbnail URL was discovered, the cached
\* file was there, requests saved the file, the yt-dlp fallback saved it,
\* nothing worked, or something unexpected raised inside run
ThumbOutcomes == {"no_url", "cached", "requests", "ytdlp", "failed", "raised"}

\* the path of the cached thumbnail of a URL
ThumbPath(url) == "/cache/" \o SubSeq(url, Len(url), Len(url)) \o ".jpg"

\* ThumbFetcher.run: the signals of one run, in order
ThumbFetcherSignals(url, outcome, log_thumbnails) ==
    <<[sig |-> "started", url |-> url, path |-> ""]>>
    \o Opt(log_thumbnails /\ outcome \in {"no_url", "failed", "raised"},
           <<[sig |-> "error", url |-> url, path |-> ""]>>)
    \o <<[sig |-> "finished", url |-> url,
          path |-> IF outcome \in {"cached", "requests", "ytdlp"}
                   THEN ThumbPath(url) ELSE ""]>>

\* a worker loop that would start a fetch without waiting for the one in
\* progress
WorkerMayTakeWhileFetching(pc) == pc \in {"get", "run"}

\* _worker_loop runs the fetcher synchronously: the next queue.get() is
\* reached only after fetcher.run() has returned
WorkerMayTake(pc) == pc = "get"

ThumbUnchanged ==
    /\ UNCHANGED <<queue, current_download_item, is_downloading, queue_paused,
                   download_worker, queue_list, btn_start_enabled,
                   btn_pause_enabled, cover_thread, inbox, env_vars, run_pc,
                   run_item, cancel_requested, process, cmd, emitted,
                   terminal_processed, title_fetcher, log_buffer,
                   gui_worker, launch_settings, attempt, last>>

\* ThumbManager.enqueue: an empty URL is ignored
ThumbEnqueue(url) ==
    /\ Len(thumb_manager.enqueued) < MaxThumbs
    /\ thumb_manager' =
         IF url = "" THEN thumb_manager
         ELSE [thumb_manager EXCEPT !.queue = Append(@, url),
                                    !.enqueued = Append(@, url)]
    /\ ThumbUnchanged

\* ThumbManager.stop: the stop event is set and a sentinel is queued
ThumbStop ==
    /\ ~thumb_manager.stop_event
    /\ thumb_manager' = [thumb_manager EXCEPT !.stop_event = TRUE,
                                              !.queue = Append(@, "None")]
    /\ ThumbUnchanged

\* _worker_loop: the test of the while loop
ThumbWorkerWhile ==
    /\ thumb_manager.pc = "while"
    /\ thumb_manager' = [thumb_manager EXCEPT
                            !.pc = IF thumb_manager.stop_event THEN "ended"
                                   ELSE "get"]
    /\ ThumbUnchanged

\* _worker_loop: queue.get() returns the oldest entry; the sentinel ends the
\* loop, a URL gets a fetcher of its own
ThumbWorkerGet ==
    /\ WorkerMayTake(thumb_manager.pc)
    /\ thumb_manager.queue # <<>>
    /\ LET item == Head(thumb_manager.queue)
       IN  thumb_manager' =
             IF item = "None"
             THEN [thumb_manager EXCEPT !.queue = Tail(@), !.pc = "ended"]
             ELSE [thumb_manager EXCEPT
                      !.queue = Tail(@), !.pc = "run",
                      !.taken = Append(@, item),
                      !.active = @ \cup {Len(thumb_manager.taken) + 1}]
    /\ ThumbUnchanged

\* _worker_loop: fetcher.run() returns; its signals were forwarded to the
\* manager's signals as they were emitted
ThumbFetcherRun ==
    /\ thumb_manager.pc = "run"
    /\ \E outcome \in ThumbOutcomes, log_thumbnails \in BOOLEAN :
         LET n == Len(thumb_manager.taken)
         IN  thumb_manager' =
               [thumb_manager EXCEPT
                  !.pc = "while",
                  !.active = @ \ {n},
                  !.outcomes = Append(@, outcome),
                  !.emitted = @ \o ThumbFetcherSignals(thumb_manager.taken[n],
                                                       outcome, log_thumbnails)]
    /\ ThumbUnchanged

(***************************************************************************)
(* The program.                                                            *)
(***************************************************************************)
\* the state after MainWindow.__init__, for a configuration read at startup
Startup(s, cookies) ==
    /\ queue = <<>>
    /\ current_download_item = <<>>
    /\ is_downloading = FALSE
    /\ queue_paused = TRUE
    /\ download_worker = "None"
    /\ settings = s
    /\ post_queue_action = "Keep"
    /\ queue_list = <<>>
    /\ btn_start_enabled = TRUE
    /\ btn_pause_enabled = FALSE
    /\ cover_thread = FALSE
    /\ inbox = <<>>
    /\ disk = <<>>
    /\ cookie_file = cookies
    /\ run_pc = "idle"
    /\ run_item = <<>>
    /\ cancel_requested = FALSE
    /\ process = "None"
    /\ cmd = <<>>
    /\ emitted = <<>>
    /\ terminal_processed = FALSE
    /\ title_fetcher = <<>>
    /\ log_buffer = <<>>
    /\ gui_worker = NewGuiWorker
    /\ thumb_manager = NewThumbManager
    /\ launch_settings = <<>>
    /\ attempt = <<>>
    /\ last = Last("init")

Init == \E s \in SettingsChoices, cookies \in BOOLEAN : Startup(s, cookies)

FileChoices == {ForeignDocument, EarlierDocument} \cup {disk[i] : i \in 1..Len(disk)}

Next ==
    \/ \E item \in ItemChoices : OnTitleFetched(item)
    \/ StartQueue
    \/ PauseQueue
    \/ OnDownloadFinished
    \/ \E index \in 0..MaxQueue : RemoveQueueItem(index)
    \/ \E index \in 0..(MaxQueue - 1), step \in {-1, 1} : MoveQueueItem(index, step)
    \/ \E doc \in FileChoices : LoadQueueFromDisk(doc)
    \/ RunStart
    \/ WaitForStarted
    \/ LateStart
    \/ \E code \in ExitCodes : ProcessFinished(code)

\* the configuration is what it was at startup
Spec == Init /\ [][Next]_vars

\* the configuration changes while the program runs
NextConfig ==
    \/ Next
    \/ \E new \in DialogChoices : ShowPreferences(new)
    \/ CookieFileChange

SpecConfig == Init /\ [][NextConfig]_vars

\* the preferences dialog while the queue runs, with the cookie file fixed
NextPrefs ==
    \/ \E item \in ItemChoices : OnTitleFetched(item)
    \/ StartQueue
    \/ PauseQueue
    \/ OnDownloadFinished
    \/ \E new \in DialogChoices : ShowPreferences(new)
    \/ RunStart
    \/ WaitForStarted
    \/ LateStart
    \/ \E code \in ExitCodes : ProcessFinished(code)

SpecPrefs == (\E s \in SettingsChoices : Startup(s, FALSE)) /\ [][NextPrefs]_vars

\* the command builders alone, applied to items and configurations of every
\* kind the builders tell apart
ItemShorts == [url |-> "https://youtube.com/shorts/c", title |-> "C: d?",
               format_code |-> "best"]
ItemPlaylistMp3 == [url |-> "https://youtu.be/e", title |-> "E",
                    format_code |-> "playlist_mp3"]
ItemFlac == [url |-> "https://youtu.be/f", title |-> "F", format_code |-> "audio_flac"]

BuildItems == ItemChoices \cup {ItemShorts, ItemPlaylistMp3, ItemFlac}

SubtitleChoices ==
    {[on |-> FALSE, langs |-> "", extra |-> FALSE],
     [on |-> FALSE, langs |-> "en,es", extra |-> TRUE],
     [on |-> TRUE, langs |-> "", extra |-> FALSE],
     [on |-> TRUE, langs |-> "en,es", extra |-> TRUE]}

BuildSettings ==
    {[BaseSettings EXCEPT !.SPONSORBLOCK_CATEGORIES = sb, !.CHAPTERS_MODE = ch,
                          !.WRITE_SUBS = subs.on, !.SUB_LANGS = subs.langs,
                          !.WRITE_AUTO_SUBS = subs.extra,
                          !.CONVERT_SUBS_TO_SRT = subs.extra,
                          !.COOKIES_FROM_BROWSER = browser,
                          !.EMBED_THUMBNAIL = embed] :
        sb \in {<<>>, <<"sponsor", "intro">>},
        ch \in {"none", "embed", "split", "chapters"},
        subs \in SubtitleChoices,
        browser \in {"", "firefox"},
        embed \in BOOLEAN}

\* _build_command of workers/download_worker.py, called for an item
BuildCommandStep(item) ==
    /\ run_item' = <<item>>
    /\ cmd' = BuildCommand(item, settings, cookie_file)
    /\ last' = Last("build")
    /\ UNCHANGED <<queue, current_download_item, is_downloading, queue_paused,
                   download_worker, queue_list, btn_start_enabled,
                   btn_pause_enabled, cover_thread, inbox, env_vars, run_pc,
                   cancel_requested, process, emitted, terminal_processed,
                   title_fetcher, log_buffer, launch_settings, attempt>>
    /\ UNCHANGED thumb_manager
    /\ UNCHANGED gui_worker

\* _build_command of ytget_gui/workers/download_worker.py, called for an item
GuiBuildCommandStep(item) ==
    /\ Len(log_buffer) + Len(GuiBuildLog(item, settings)) <= MaxLog
    /\ run_item' = <<item>>
    /\ cmd' = GuiBuildCommand(item, settings, cookie_file)
    /\ log_buffer' = IF GuiBuildLog(item, settings) = <<>> THEN log_buffer
                     ELSE AddLog(log_buffer, GuiBuildLog(item, settings)[1])
    /\ last' = Last("gui_build")
    /\ UNCHANGED <<queue, current_download_item, is_downloading, queue_paused,
                   download_worker, queue_list, btn_start_enabled,
                   btn_pause_enabled, cover_thread, inbox, env_vars, run_pc,
                   cancel_requested, process, emitted, terminal_processed,
                   title_fetcher, launch_settings, attempt>>
    /\ UNCHANGED thumb_manager
    /\ UNCHANGED gui_worker

InitBuild == \E s \in BuildSettings, cookies \in BOOLEAN : Startup(s, cookies)

NextBuild ==
    \/ \E item \in BuildItems : BuildCommandStep(item)
    \/ \E item \in BuildItems : GuiBuildCommandStep(item)

SpecBuild == InitBuild /\ [][NextBuild]_vars

\* the thumbnail manager alone
NextThumb ==
    \/ \E url \in UrlChoices \cup {""} : ThumbEnqueue(url)
    \/ ThumbStop
    \/ ThumbWorkerWhile
    \/ ThumbWorkerGet
    \/ ThumbFetcherRun

SpecThumb == Startup(BaseSettings, FALSE) /\ [][NextThumb]_vars

\* the packaged worker reads output while time passes and the timer flushes
NextRead ==
    \/ \E chunk \in ChunkChoices : Len(log_buffer) < MaxLog /\ OnRead(chunk)
    \/ FlushLogs
    \/ Tick

SpecRead == Startup(BaseSettings, FALSE) /\ [][NextRead]_vars

\* the packaged worker's buffer fills without the timer firing
NextLogCap ==
    \/ NextLogId(log_buffer) <= MaxLogLines /\ AddLogLine
    \/ Len(log_buffer) >= FlushThreshold /\ OnRead(PlainChunk)
    \/ FlushLogs

SpecLogCap == Startup(BaseSettings, FALSE) /\ [][NextLogCap]_vars

\* cover cropping after the queue has drained
InitCover == \E s \in {CropSettings, BaseSettings} : Startup(s, FALSE)

NextCover ==
    \/ Next
    \/ OnCoverFinished
    \/ CoverCropRun

SpecCover == InitCover /\ [][NextCover]_vars

\* the end-of-queue action is chosen in the menu while the queue runs and
\* drains and the cover worker runs
NextHook ==
    \/ \E item \in ItemChoices : OnTitleFetched(item)
    \/ StartQueue
    \/ OnDownloadFinished
    \/ RunStart
    \/ WaitForStarted
    \/ LateStart
    \/ \E code \in ExitCodes : ProcessFinished(code)
    \/ OnCoverFinished
    \/ CoverCropRun
    \/ \E action \in PostQueueActions : SetPostQueueAction(action)

SpecHook == InitCover /\ [][NextHook]_vars

\* a queue file of an earlier session that lists one video twice
LongDocument == JsonDump(<<ItemVideo, ItemVideo, ItemMusic>>)

\* a session that edits a loaded queue of three rows
NextEdit ==
    \/ \E item \in ItemChoices : OnTitleFetched(item)
    \/ StartQueue
    \/ PauseQueue
    \/ OnDownloadFinished
    \/ \E index \in 0..MaxRows : RemoveQueueItem(index)
    \/ \E index \in 0..(MaxRows - 1), step \in {-1, 1} : MoveQueueItem(index, step)
    \/ LoadQueueFromDisk(LongDocument)
    \/ RunStart
    \/ WaitForStarted
    \/ LateStart
    \/ \E code \in ExitCodes : ProcessFinished(code)

SpecEdit == Startup(BaseSettings, FALSE) /\ [][NextEdit]_vars

\* the threads are scheduled and the process ends: run() is entered once the
\* worker's thread has started, waitForStarted returns within its timeout, a
\* process that runs exits, and the interface thread's event loop handles the
\* finished signals queued to it
SpecLive ==
    /\ Spec
    /\ WF_vars(RunStart)
    /\ WF_vars(WaitForStarted)
    /\ WF_vars(LateStart)
    /\ WF_vars(\E code \in ExitCodes : ProcessFinished(code))
    /\ WF_vars(OnDownloadFinished)

\* a session that saves queues to a file and loads them again
NextFile ==
    \/ \E item \in ItemChoices : OnTitleFetched(item)
    \/ StartQueue
    \/ PauseQueue
    \/ OnDownloadFinished
    \/ \E index \in 0..MaxQueue : RemoveQueueItem(index)
    \/ SaveQueueToDisk
    \/ \E doc \in FileChoices : LoadQueueFromDisk(doc)
    \/ RunStart
    \/ WaitForStarted
    \/ LateStart
    \/ \E code \in ExitCodes : ProcessFinished(code)

SpecFile == Startup(BaseSettings, FALSE) /\ [][NextFile]_vars

\* the queue fed by title fetchers: every add goes through _fetch_title, the
\* fetcher's run and the handler of its queued signal
NextFetch ==
    \/ \E url \in UrlChoices : FetchTitle(url)
    \/ TitleFetcherRun
    \/ OnTitleFetchedSignal
    \/ OnTitleError
    \/ StartQueue
    \/ PauseQueue
    \/ OnDownloadFinished
    \/ \E index \in 0..MaxQueue : RemoveQueueItem(index)
    \/ RunStart
    \/ WaitForStarted
    \/ LateStart
    \/ \E code \in ExitCodes : ProcessFinished(code)

SpecFetch == Startup(BaseSettings, FALSE) /\ [][NextFetch]_vars

\* whether a command holds a flag, and the places where it holds it
HasFlag(c, flag) == \E i \in 1..Len(c) : c[i] = flag

FlagPlaces(c, flag) == {i \in 1..Len(c) : c[i] = flag}

\* the output template of a command: the argument after -o
OutputTemplate(c) == c[(CHOOSE i \in 1..Len(c) : c[i] = "-o") + 1]

\* the finished signals among the signals of the thumbnail manager
ThumbFinished(sigs) == SelectSeq(sigs, LAMBDA e : e.sig = "finished")

(***************************************************************************)
(* Properties.                                                             *)
(***************************************************************************)
\* the finished signals of cover workers that wait in the inbox
CoverCount(events) == Cardinality({i \in 1..Len(events) : events[i].kind = "cover"})

\* the finished signals the live worker has emitted so far
FinishedCount == Cardinality({i \in 1..Len(emitted) : IsFinishedSig(emitted[i])})

\* a step in which _download_next started a worker
LaunchStep == run_pc' = "launched" /\ run_pc # "launched"

\* a step in which _on_download_finished handled a finished signal
FinishedStep == last'.op = "finished"

\* C1: at most one download worker is active, and a download is launched only
\* when no worker was started before, or the window has handled a finished
\* signal of the worker it replaces (in an earlier step, or in this one).
C1_LaunchAfterTerminalEvent ==
    [][LaunchStep =>
         \/ run_pc = "idle"
         \/ terminal_processed
         \/ FinishedStep /\ ~last'.stale]_vars

\* C2: a run of the worker emits finished at most once, whichever path ends it.
C2_FinishedEmittedOnce == FinishedCount <= 1

\* what reports a run as failed, and what reports it as succeeded
FailureReports == {"error:preparing", "error:failed_to_start", "log:exit_code",
                   FinishedSig(1)}
SuccessReports == {"log:success", FinishedSig(0)}

\* the signals emitted in a step of the live worker
NewSignals == {emitted'[i] : i \in (Len(emitted) + 1)..Len(emitted')}

\* C3: once cancel was requested for a run whose process is starting or
\* running, the run emits neither a report of failure nor a report of success.
C3_CancelledNeverFailedOrSucceeded ==
    [][(cancel_requested /\ cancel_requested' /\ process \in {"Starting", "Running"}) =>
         NewSignals \cap (FailureReports \cup SuccessReports) = {}]_vars

\* C4: when the window handles the failure of the run in flight (a finished
\* signal with a code other than 0, and no cancellation requested), the queue
\* is paused afterwards and no download is launched.
C4_FailurePausesQueue ==
    [][(FinishedStep /\ ~last'.stale /\ last'.code # 0 /\ ~cancel_requested) =>
         (queue_paused' /\ ~is_downloading')]_vars

\* C5: handling a finished signal with a code other than 0 leaves the queue as
\* it is, and the item that is current, if any, is its head.
C5_FailureKeepsQueue ==
    [][(FinishedStep /\ last'.code # 0) =>
         /\ queue' = queue
         /\ current_download_item # <<>> =>
              (queue' # <<>> /\ <<queue'[1]>> = current_download_item)]_vars

C5_FailureHandled ==
    /\ last.op = "finished" /\ last.code = 1 /\ ~last.stale
    /\ Len(queue) = 2
    /\ FinishedSig(1) \in {emitted[i] : i \in 1..Len(emitted)}

\* C6: handling finished(0) while an item is current removes exactly that item,
\* the head, and keeps the rest in order; the new head is launched in the same
\* step if and only if the queue is not paused and not empty; when the queue
\* is empty now, _on_queue_finished is called.
C6_SuccessPopsAndAdvances ==
    [][(FinishedStep /\ last'.code = 0 /\ current_download_item # <<>>) =>
         /\ queue = current_download_item \o queue'
         /\ is_downloading' <=> (~queue_paused /\ queue' # <<>>)
         /\ is_downloading' => (run_pc' = "launched" /\ run_item' = <<queue'[1]>>)
         /\ queue' = <<>> => last'.drained]_vars

C6_SuccessHandled ==
    /\ last.op = "finished" /\ last.code = 0 /\ ~last.stale
    /\ Len(queue) = 1
    /\ is_downloading /\ run_pc = "launched" /\ run_item = <<queue[1]>>

\* C7: when the finished signal of a run for which Pause Queue requested
\* cancel is handled, and Start Queue was not pressed since, the queue is
\* paused and the item of that run is the head of the queue afterwards.
C7_PausedItemStaysAtHead ==
    [][(FinishedStep /\ ~last'.stale /\ cancel_requested /\ queue_paused) =>
         /\ queue_paused'
         /\ queue' # <<>> /\ <<queue'[1]>> = run_item]_vars

\* C8: a run that retries a failed run of the head item, with no change of
\* the queue or of the configuration since the command of the failed run was
\* built, is for the same item and builds the same command.
C8_RetrySameItemSameCommand ==
    (attempt # <<>> /\ attempt[1].retry_of # <<>>) =>
        attempt[1].retry_of = <<attempt[1].item, attempt[1].cmd>>

C8_RetriedAfterStart ==
    /\ attempt # <<>>
    /\ attempt[1].retry_of # <<>>
    /\ attempt[1].resumed
    /\ Len(queue) = 2
    /\ cmd = attempt[1].cmd

\* C9: at most one row of the queue list is shown as active.
C9_AtMostOneActiveRow ==
    Cardinality({i \in 1..Len(queue_list) : queue_list[i].active}) <= 1

\* C10: while a download is in flight, removing the current item, and moving
\* an item from or to the place of the current item, is refused and leaves
\* the queue, the current item and the downloading and paused flags unchanged.
C10_ActiveItemGuarded ==
    [][/\ \A index \in 0..(MaxQueue - 1) :
            (/\ is_downloading
             /\ InRange(queue, index)
             /\ <<queue[index + 1]>> = current_download_item
             /\ RemoveQueueItem(index)) =>
                (/\ last'.rejected
                 /\ UNCHANGED <<queue, current_download_item, is_downloading,
                                queue_paused>>)
       /\ \A index \in 0..(MaxQueue - 1), step \in {-1, 1} :
            (/\ is_downloading
             /\ InRange(queue, index) /\ InRange(queue, index + step)
             /\ \/ <<queue[index + 1]>> = current_download_item
                \/ <<queue[index + step + 1]>> = current_download_item
             /\ MoveQueueItem(index, step)) =>
                (/\ last'.rejected
                 /\ UNCHANGED <<queue, current_download_item, is_downloading,
                                queue_paused>>)]_vars

C10_MoveRefused ==
    /\ last.op = "move" /\ last.rejected
    /\ is_downloading
    /\ Len(queue) = 2 /\ queue[1] # queue[2]
    /\ <<queue[1]>> = current_download_item

\* C11: a remove of a row in range that is not the row being downloaded (the
\* head, while a download is in flight) removes exactly that row, also when the
\* row holds an item equal in value to the one being downloaded
C11_RemoveOfOtherRow ==
    [][\A index \in 0..MaxQueue :
          (/\ InRange(queue, index)
           /\ ~(is_downloading /\ index = 0)
           /\ RemoveQueueItem(index))
          => queue' = RemoveAt(queue, index)]_vars

\* C12: a move whose two rows are in range and of which neither is the row
\* being downloaded (the head, while a download is in flight) exchanges exactly
\* those two adjacent rows; a move out of range leaves the queue as it is
C12_MoveSwapsAdjacentRows ==
    [][\A index \in 0..(MaxRows - 1), step \in {-1, 1} :
          MoveQueueItem(index, step) =>
              LET new_index == index + step
              IN  IF InRange(queue, index) /\ InRange(queue, new_index)
                  THEN (~(is_downloading /\ (index = 0 \/ new_index = 0))) =>
                       /\ Len(queue') = Len(queue)
                       /\ queue'[index + 1] = queue[new_index + 1]
                       /\ queue'[new_index + 1] = queue[index + 1]
                       /\ \A i \in 1..Len(queue) :
                              i \notin {index + 1, new_index + 1} => queue'[i] = queue[i]
                  ELSE queue' = queue]_vars

\* C13: an add is taken in every state of the queue (idle, running, paused,
\* drained); it puts the item after the others, which keep their order, leaves
\* the current item, the downloading flag and the paused flag as they are and
\* starts no download
C13_AddAppendsAndNothingElse ==
    /\ [](Len(queue) < MaxQueue =>
            \A item \in ItemChoices : ENABLED OnTitleFetched(item))
    /\ [][last'.op = "add" =>
            /\ \E item \in ItemChoices : queue' = queue \o <<item>>
            /\ UNCHANGED <<current_download_item, is_downloading, queue_paused,
                           download_worker, run_pc, run_item, process, cmd,
                           emitted, inbox>>]_vars

\* an item was added while a download was running
C13_AddedWhileRunning ==
    /\ last.op = "add"
    /\ is_downloading /\ ~queue_paused
    /\ Len(queue) = 2 /\ <<queue[1]>> = current_download_item

C15_CommandOfLaunchConfiguration ==
    [][(run_pc = "launched" /\ run_pc' = "waitForStarted") =>
          cmd' = BuildCommand(run_item[1], launch_settings[1], cookie_file)]_vars

\* C16: the queue is drained (the cover cropping and the end-of-queue action
\* are triggered) only while it runs, never while it is paused
C16_DrainedOnlyFromRunning ==
    (last.op = "finished" /\ last.drained) => ~queue_paused

\* C17: when the queue drains and cover cropping is configured, the drain only
\* starts the cover worker, and the end-of-queue action is performed when a
\* finished signal of a cover worker is handled, which only a cover worker
\* that has ended posts; when cover cropping is not configured, the action is
\* performed in the drain itself
C17_ActionAfterHook ==
    /\ [](last.action # "" =>
            IF settings.CROP_AUDIO_COVERS
            THEN last.op = "cover"
            ELSE last.op = "finished" /\ last.drained)
    /\ [][(last'.op = "finished" /\ last'.drained) =>
            IF settings.CROP_AUDIO_COVERS
            THEN last'.action = "" /\ cover_thread'
            ELSE last'.action = post_queue_action]_vars
    /\ [][CoverCount(inbox') > CoverCount(inbox) => cover_thread]_vars

\* the action was performed on the finished signal of the cover worker that
\* the drain had started
C17_ActionOnCoverFinished ==
    /\ settings.CROP_AUDIO_COVERS
    /\ last.op = "cover" /\ last.action = post_queue_action
    /\ queue = <<>> /\ ~cover_thread

\* C18: every run that was launched emits a finished signal, which the window
\* then handles: no worker is replaced before it has emitted one, and a worker
\* that was launched emits one eventually, also when preparing the command
\* raises or the process fails to start
C18_EveryRunReportsTerminal ==
    /\ [][(LaunchStep /\ download_worker = "worker") => FinishedCount >= 1]_vars
    /\ (run_pc = "launched") ~> (FinishedCount >= 1)

\* C19: a filename cleanup that fails after exit code 0 does not change the
\* outcome: the worker still emits finished(0), last, and the window is sent
\* that signal; a cover worker that ends, also one that raised, posts its
\* finished signal, and handling it performs the end-of-queue action
C19_CleanupAndCropFailuresAreNotFatal ==
    /\ [][("log:cleanup_failed" \in NewSignals) =>
            /\ emitted'[Len(emitted')] = FinishedSig(0)
            /\ FailureReports \cap NewSignals = {}
            /\ inbox' = Append(inbox, FinishedEvent(0))]_vars
    /\ [][(cover_thread /\ ~cover_thread') =>
            CoverCount(inbox') > CoverCount(inbox)]_vars
    /\ [](last.op = "cover" => last.action = post_queue_action)

\* the cleanup of the last download failed, the item was popped and the queue
\* drained; the cover worker raised, and the action was performed all the same
C19_ActionAfterFailedCrop ==
    /\ last.op = "cover" /\ last.code = -1 /\ last.action = post_queue_action
    /\ \E i \in 1..Len(emitted) : emitted[i] = "log:cleanup_failed"
    /\ queue = <<>> /\ ~is_downloading

\* C20: after a cancel that found the process running, a further cancel of the
\* same worker, before or after the process has exited, emits nothing more and
\* asks for no further termination: the signals of the worker, the signals
\* queued to the window and the state of its process are what they were
C20_SecondCancelDoesNothing ==
    [][(last'.op = "pause" /\ is_downloading /\ download_worker = "worker"
        /\ CancelCount(emitted) >= 1) =>
          UNCHANGED <<emitted, process, cancel_requested, inbox>>]_vars

\* C21: a load of the file that a save has just written gives back the queue
\* that was saved, item by item and in order, whatever the queue is, the empty
\* queue included
C21_SaveThenLoadGivesQueue ==
    [][(/\ last.op = "save" /\ ~is_downloading /\ disk # <<>>
        /\ LoadQueueFromDisk(disk[1]))
          => queue' = queue]_vars

\* C22: a load of a file whose top-level JSON value is not an array is refused
\* with an error report and leaves the queue, the current item, the
\* downloading flag and the paused flag as they are
C22_ForeignFileRejected ==
    [][\A doc \in FileChoices :
          (doc.type # "array" /\ LoadQueueFromDisk(doc)) =>
              /\ last'.rejected
              /\ UNCHANGED <<queue, current_download_item, is_downloading,
                             queue_paused, queue_list>>]_vars

\* a file that holds no array was refused while no download was active and
\* the queue held an item
C22_ForeignFileRefused ==
    /\ last.op = "load" /\ last.rejected
    /\ ~is_downloading /\ queue # <<>>

\* C23: every run of a title fetcher reports exactly once, a title or an
\* error; the handler of an error leaves the queue, the current item and the
\* flags as they are; and the queue grows only in the handler of a
\* title_fetched signal, by an item of that signal's URL.
C23_PrefetchReportsOnce ==
    /\ [](title_fetcher # <<>> /\ ~title_fetcher[1].running
            => TitleReports(title_fetcher[1].emitted) = 1)
    /\ [][OnTitleError =>
            UNCHANGED <<queue, queue_list, current_download_item,
                        is_downloading, queue_paused>>]_vars
    /\ [][Len(queue') > Len(queue) =>
            /\ inbox # <<>>
            /\ Head(inbox).kind = "title_fetched"
            /\ Len(queue') = Len(queue) + 1
            /\ SubSeq(queue', 1, Len(queue)) = queue
            /\ queue'[Len(queue')].url = Head(inbox).url]_vars

\* C23 witness: the error of a failed prefetch was handled while another item
\* was already queued.
C23_ErrorHandled ==
    /\ last.op = "title_error"
    /\ title_fetcher # <<>>
    /\ ~title_fetcher[1].running
    /\ title_fetcher[1].emitted[1] = "error"
    /\ queue # <<>>
    /\ \A i \in 1..Len(queue) : queue[i].url # title_fetcher[1].url

\* C24: a Save of the preferences with subtitles switched on and no language
\* (an empty or blank field) is refused and leaves the configuration as it
\* was; so the configuration never has subtitles on with an empty language
\* list, and no command a run builds has --write-subs without --sub-langs.
C24_SubtitlesNeedLanguages ==
    /\ [][\A new \in DialogChoices :
            (new.WRITE_SUBS /\ Strip(new.SUB_LANGS) = "" /\ ShowPreferences(new))
                => (last'.rejected /\ settings' = settings)]_vars
    /\ [](~(settings.WRITE_SUBS /\ settings.SUB_LANGS = ""))
    /\ [][(run_pc = "launched" /\ run_pc' = "waitForStarted") =>
            (HasFlag(cmd', "--write-subs") => HasFlag(cmd', "--sub-langs"))]_vars

\* C24 witness: a Save was refused while subtitles were on with two
\* languages, and a launched run is about to build its command.
C24_SaveRefusedBeforeBuild ==
    /\ last.op = "preferences" /\ last.rejected
    /\ run_pc = "launched"
    /\ settings.WRITE_SUBS /\ settings.SUB_LANGS = "en,es"

\* C25: a built command holds --sponsorblock-remove, followed by the
\* categories joined with commas and by --sleep-requests 1 --sleep-subtitles 1,
\* exactly when a category is configured and the URL is not a shorts URL;
\* otherwise it holds none of the three flags.
C25_SponsorBlockUnlessShorts ==
    cmd # <<>> =>
        IF /\ settings.SPONSORBLOCK_CATEGORIES # <<>>
           /\ ~Contains(run_item[1].url, "youtube.com/shorts/")
        THEN \E i \in 1..(Len(cmd) - 5) :
                SubSeq(cmd, i, i + 5) =
                    <<"--sponsorblock-remove",
                      Join(",", settings.SPONSORBLOCK_CATEGORIES),
                      "--sleep-requests", "1", "--sleep-subtitles", "1">>
        ELSE /\ ~HasFlag(cmd, "--sponsorblock-remove")
             /\ ~HasFlag(cmd, "--sleep-requests")
             /\ ~HasFlag(cmd, "--sleep-subtitles")

\* C25 witness: a command built for a shorts URL with categories configured.
C25_ShortsWithCategories ==
    /\ cmd # <<>>
    /\ run_item = <<ItemShorts>>
    /\ settings.SPONSORBLOCK_CATEGORIES = <<"sponsor", "intro">>
    /\ ~HasFlag(cmd, "--sponsorblock-remove")

\* C26: a built command holds --split-chapters exactly for the chapters mode
\* split and --embed-chapters exactly for the mode embed, so never both and
\* neither for none or any other value.
C26_OneChaptersFlag ==
    cmd # <<>> =>
        /\ HasFlag(cmd, "--split-chapters") <=> settings.CHAPTERS_MODE = "split"
        /\ HasFlag(cmd, "--embed-chapters") <=> settings.CHAPTERS_MODE = "embed"
        /\ ~(HasFlag(cmd, "--split-chapters") /\ HasFlag(cmd, "--embed-chapters"))

\* C26 witness: a command built for a chapters mode that is none of the three.
C26_UnknownChaptersMode ==
    /\ cmd # <<>>
    /\ settings.CHAPTERS_MODE = "chapters"
    /\ ~HasFlag(cmd, "--split-chapters")
    /\ ~HasFlag(cmd, "--embed-chapters")

\* C27: with subtitles on, a built command holds --write-subs and, when the
\* language list is not empty, --sub-langs once, directly followed by the
\* configured list; with subtitles off it holds none of --write-subs,
\* --sub-langs, --write-auto-subs and --convert-subs.
C27_SubtitleFlags ==
    cmd # <<>> =>
        IF settings.WRITE_SUBS
        THEN /\ HasFlag(cmd, "--write-subs")
             /\ settings.SUB_LANGS # "" =>
                  /\ Cardinality(FlagPlaces(cmd, "--sub-langs")) = 1
                  /\ \A i \in FlagPlaces(cmd, "--sub-langs") :
                        cmd[i + 1] = settings.SUB_LANGS
        ELSE \A flag \in {"--write-subs", "--sub-langs", "--write-auto-subs",
                          "--convert-subs"} : ~HasFlag(cmd, flag)

\* C27 witness: the packaged builder's command for subtitles in two languages.
C27_SubtitlesInTwoLanguages ==
    /\ last.op = "gui_build"
    /\ settings.WRITE_SUBS /\ settings.SUB_LANGS = "en,es"
    /\ HasFlag(cmd, "--sub-langs")

\* C28: a built command holds --yes-playlist and an output template with a
\* playlist-title folder when the item's URL holds list= or its format code is
\* a playlist audio code, and neither for any other item.
C28_PlaylistFlagAndFolder ==
    cmd # <<>> =>
        IF \/ Contains(run_item[1].url, "list=")
           \/ run_item[1].format_code \in {"playlist_mp3", "youtube_music"}
        THEN /\ HasFlag(cmd, "--yes-playlist")
             /\ Contains(OutputTemplate(cmd), "/%(playlist_title)s/")
        ELSE /\ ~HasFlag(cmd, "--yes-playlist")
             /\ ~Contains(OutputTemplate(cmd), "playlist_title")

\* C28 witness: the packaged builder's command for a playlist format code on
\* a URL without list=.
C28_PlaylistByFormatCode ==
    /\ last.op = "gui_build"
    /\ run_item = <<ItemPlaylistMp3>>
    /\ HasFlag(cmd, "--yes-playlist")

\* C29: a built command holds at most one of --cookies and
\* --cookies-from-browser, and --cookies only when the cookie file exists with
\* content and no browser is named.
C29_OneCookieSource ==
    cmd # <<>> =>
        /\ ~(HasFlag(cmd, "--cookies") /\ HasFlag(cmd, "--cookies-from-browser"))
        /\ HasFlag(cmd, "--cookies") =>
              (cookie_file /\ settings.COOKIES_FROM_BROWSER = "")

\* C30: a build gives a command that starts with the downloader's path and
\* ends with the item's URL, gives the command of the previous build when that
\* was the same builder's for the same item, configuration and cookie file,
\* and leaves the cancel flag, the log buffer and the emitted signals alone.
C30_BuildIsPure ==
    [][(\E item \in BuildItems :
            BuildCommandStep(item) \/ GuiBuildCommandStep(item)) =>
          /\ cmd'[1] = settings.YT_DLP_PATH
          /\ cmd'[Len(cmd')] = run_item'[1].url
          /\ (last'.op = last.op /\ run_item' = run_item) => cmd' = cmd
          /\ UNCHANGED <<cancel_requested, log_buffer, emitted>>]_vars

\* C31: the thumbnail manager never has two fetches in progress; it takes the
\* requests in the order in which they were enqueued; and for the requests it
\* has taken and whose fetch has ended it has emitted one finished signal
\* each, in that order, for that URL, with an empty path exactly when the
\* fetch failed.
C31_ThumbsOneAtATimeInOrder ==
    LET tm == thumb_manager
        done == ThumbFinished(tm.emitted)
    IN  /\ Cardinality(tm.active) <= 1
        /\ Len(tm.taken) <= Len(tm.enqueued)
        /\ tm.taken = SubSeq(tm.enqueued, 1, Len(tm.taken))
        /\ Len(done) = Len(tm.taken) - Cardinality(tm.active)
        /\ \A i \in 1..Len(done) :
              /\ done[i].url = tm.taken[i]
              /\ (done[i].path = "") <=>
                    (tm.outcomes[i] \in {"no_url", "failed", "raised"})

\* C31 witness: three requests were served, the second one failed, and the
\* worker waits for more.
C31_ThreeServedOneFailed ==
    /\ Len(ThumbFinished(thumb_manager.emitted)) = 3
    /\ thumb_manager.outcomes[2] = "failed"
    /\ thumb_manager.outcomes[3] = "requests"
    /\ thumb_manager.enqueued[1] # thumb_manager.enqueued[2]
    /\ thumb_manager.active = {}

\* C32: the finished signal of a run is the last signal the run emits: no
\* log, error or further signal of the run follows it.
C32_FinishedIsLastSignal ==
    \A i \in 1..(Len(emitted) - 1) : ~IsFinishedSig(emitted[i])

\* C33: a cancel() of a run whose process was launched, be it starting or
\* running, requests the termination of the process, so that the run ends as
\* cancelled without the download running to its end.
C33_CancelTerminatesProcess ==
    [][(/\ last'.op = "pause"
        /\ cancel_requested'
        /\ process \in {"Starting", "Running"}) => process' = "Terminating"]_vars

\* C34: a status signal is emitted only when its text differs from the status
\* emitted last and at least the throttle interval has passed since then: no
\* two consecutive status signals carry the same text or lie closer together
\* than the throttle interval.
C34_StatusThrottled ==
    /\ [](\A i \in 1..(Len(gui_worker.statuses) - 1) :
            /\ gui_worker.statuses[i + 1].text # gui_worker.statuses[i].text
            /\ gui_worker.statuses[i + 1].time - gui_worker.statuses[i].time
                 >= StatusThrottleMs)
    /\ [][Len(gui_worker'.statuses) > Len(gui_worker.statuses)
            => /\ gui_worker'.statuses[Len(gui_worker'.statuses)].text
                    # gui_worker.last_status_text
               /\ gui_worker.now - gui_worker.last_status_emit
                    >= StatusThrottleMs]_vars

\* three status signals were emitted, and the chunk read last, with a new
\* percentage, was held back because the throttle interval had not passed
C34_StatusHeldBack ==
    /\ Len(gui_worker.statuses) = 3
    /\ last.op = "on_read"
    /\ gui_worker.signals = <<>>
    /\ log_buffer # <<>>
    /\ StatusText([text |-> "", pct |-> "50", eta |-> ""])
         # gui_worker.last_status_text
    /\ log_buffer[Len(log_buffer)].text = "[download] 50%"

\* C35: the log buffer never holds more than LogCap + 1 lines that are not yet
\* flushed; a line added to a buffer over the cap discards the oldest lines,
\* and the line added last is never discarded.
C35_LogBufferCapped ==
    /\ [](Len(log_buffer) <= LogCap + 1)
    /\ [][last'.op = "add_log"
            => /\ log_buffer' # <<>>
               /\ log_buffer'[Len(log_buffer')]
                    = [id |-> NextLogId(log_buffer), text |-> "log:renamed"]
               /\ \E k \in 0..Len(log_buffer) :
                    /\ SubSeq(log_buffer', 1, Len(log_buffer') - 1)
                         = SubSeq(log_buffer, k + 1, Len(log_buffer))
                    /\ k > 0 => Len(log_buffer) > LogCap]_vars

\* a line was added to a full buffer: the oldest lines are gone, the line added
\* is the last one
C35_OldestDiscarded ==
    /\ last.op = "add_log"
    /\ Len(log_buffer) = LogCap + 1 - LogDrop + 1
    /\ log_buffer[1].id = LogDrop + 1
    /\ log_buffer[Len(log_buffer)].id = LogCap + 2

\* C36: log and status signals are emitted in the order they were produced: the
\* log lines leave the buffer in the order they were added, and the status
\* derived from a chunk is emitted after the log line of that chunk.
C36_StatusAfterLogText ==
    /\ [](\A i \in 1..(Len(log_buffer) - 1) :
            log_buffer[i].id < log_buffer[i + 1].id)
    /\ [][last'.op = "flush_logs"
            => gui_worker'.signals = FlushSignals(log_buffer)]_vars
    /\ [][Len(gui_worker'.statuses) > Len(gui_worker.statuses)
            => \A i \in 1..Len(gui_worker'.signals) :
                 gui_worker'.signals[i].sig = "status"
                 => \E j \in 1..(i - 1) :
                      /\ gui_worker'.signals[j].sig = "log"
                      /\ gui_worker'.signals[j].id = gui_worker'.signals[i].id]_vars

C38_ActionOncePerDrain ==
    /\ [][(last'.op = "finished" /\ last'.drained) =>
            IF settings.CROP_AUDIO_COVERS
            THEN last'.action = "" /\ cover_thread'
            ELSE last'.action = post_queue_action]_vars
    /\ [][(cover_thread /\ (~cover_thread' \/ last'.drained)) =>
            CoverCount(inbox') = CoverCount(inbox) + 1]_vars
    /\ [][last'.op = "cover" =>
            /\ last'.action = post_queue_action
            /\ CoverCount(inbox') = CoverCount(inbox) - 1]_vars

\* C39: the end-of-queue action is performed only when the queue is empty and
\* no download is in flight, also when items are added and the queue is started
\* while the cover worker runs.
C39_ActionOnlyWhenDrained ==
    [][last'.action \in {"Shutdown", "Sleep", "Restart", "Close"}
         => (queue' = <<>> /\ ~is_downloading')]_vars

\* a start() that finds the run cancelled by pause() still unreported
ResumeBeforeTerminal == last'.op = "start" /\ is_downloading /\ queue_paused

\* the finished signal of the cancelled run is handled after such a start()
TerminalAfterResume ==
    /\ FinishedStep /\ ~last'.stale /\ last'.code = -1
    /\ is_downloading /\ ~queue_paused /\ cancel_requested

\* C40: a start() after pause() and before the finished signal of the
\* cancelled run is handled launches nothing and leaves the queue running;
\* handling that signal relaunches the head item, which is still the item of
\* the cancelled run, and relaunches it once: the cancelled run has left no
\* further finished signal in the queue of the interface thread, whose handler
\* would launch the head again.
C40_ResumeRelaunchesHeadOnce ==
    /\ [][ResumeBeforeTerminal =>
            /\ ~LaunchStep
            /\ run_pc' = run_pc /\ run_item' = run_item
            /\ is_downloading' /\ ~queue_paused']_vars
    /\ [][TerminalAfterResume =>
            /\ queue' = queue
            /\ run_pc' = "launched" /\ run_item' = <<queue[1]>>
            /\ run_item' = run_item
            /\ is_downloading' /\ ~queue_paused']_vars
    /\ [][TerminalAfterResume =>
            \A i \in 2..Len(inbox) :
                inbox[i].kind = "finished" => inbox[i].stale]_vars

====
